---- MODULE Spec2Model ----
(***************************************************************************)
(* Model of streamlit_app.py (vamos-frotas-slaa): the SLA evaluators       *)
(* calcular_sla_simples and calcular_cenario_comparativo, the currency     *)
(* formatting / parsing helpers, the scenario-comparison screen, the       *)
(* savings column of the analyses report, the deletion requests with their *)
(* notifications, the login and the password reset.                        *)
(*                                                                         *)
(* Conventions.                                                            *)
(*  - A date is its day number counted from Monday 2024-01-01 (day 0), so  *)
(*    the weekday of day d is d % 7 with 0 = Monday ... 6 = Sunday.        *)
(*  - Money is an exact rational number of cents, [n |-> num, d |-> den]   *)
(*    in lowest terms with d > 0.  The program uses binary floating point; *)
(*    the model keeps the exact value of every expression.                 *)
(*  - A Python str is a sequence of one-character strings.                 *)
(*  - Service-type keys are written in ASCII.                              *)
(***************************************************************************)
EXTENDS Integers, Sequences, FiniteSets, TLC

VARIABLES
    users,                \* rows of the Supabase table 'users'
    agora,                \* datetime.now(tz_brasilia), in half seconds
    tokens,               \* how many secrets.token_urlsafe() values have been drawn
    redefinicoes,         \* the tokens of the password resets that were stored, oldest first
    numpy_build,          \* which np.busday_count the build links against
    float_ties,           \* where the double of a value halfway between two cents lies
    args,                 \* arguments of the evaluator calls under study
    retS,                 \* <<locals and result of calcular_sla_simples>>, or <<>>
    retC,                 \* <<locals and result of calcular_cenario_comparativo>>, or <<>>
    session_state,        \* st.session_state: present keys -> values
    view,                 \* what the last script run computed and displayed
    analises,             \* rows of the Supabase table 'analises', oldest first
    storage,              \* Storage bucket "pdfs": path -> protocol printed in the PDF
    uuids,                \* how many uuid.uuid4() values have been drawn
    delete_requests,      \* rows of the Supabase table 'delete_requests'
    alias,                \* positions in cenarios whose "Detalhe Pecas" is the very
                          \* list object bound to session_state.pecas_atuais
    evento                \* the widget event that started the last script run

vars == <<users, agora, tokens, redefinicoes, numpy_build, float_ties, args, retS, retC, session_state, view, analises, storage, uuids, delete_requests, alias, evento>>

sessVars == <<session_state, view, analises, storage, uuids, delete_requests, alias, evento>>

(***************************************************************************)
(* Bounds of the model.                                                    *)
(***************************************************************************)
MaxEntrada == 6
MaxDay == 22
MaxFeriados == 3
MaxCenarios == 3
MaxPecas == 1
MaxAnalises == 2
MaxUuids == 4
SessCenarios == 2
MaxRequests == 2
StoreRequests == 1

(***************************************************************************)
(* Integer helpers.                                                        *)
(***************************************************************************)
Max(a, b) == IF a >= b THEN a ELSE b
Min(a, b) == IF a <= b THEN a ELSE b
Abs(a) == IF a < 0 THEN -a ELSE a

RECURSIVE GCD(_, _)
GCD(a, b) == IF b = 0 THEN a ELSE GCD(b, a % b)

(***************************************************************************)
(* Exact rationals (Python float arithmetic on money).                     *)
(***************************************************************************)
Rat(n, d) ==
    LET s == IF d < 0 THEN -1 ELSE 1
        g == GCD(Abs(n), Abs(d))
    IN  [n |-> (s * n) \div g, d |-> (s * d) \div g]
RatInt(k) == [n |-> k, d |-> 1]
RatAdd(a, b) == Rat(a.n * b.d + b.n * a.d, a.d * b.d)
RatSub(a, b) == Rat(a.n * b.d - b.n * a.d, a.d * b.d)
RatMulInt(a, k) == Rat(a.n * k, a.d)
RatDivInt(a, k) == Rat(a.n, a.d * k)
\* Python's a / k for an int k: ZeroDivisionError when k = 0
py_truediv(a, k) ==
    IF k = 0 THEN [raised |-> TRUE, val |-> a]
    ELSE [raised |-> FALSE, val |-> RatDivInt(a, k)]
RatLess(a, b) == a.n * b.d < b.n * a.d
RatLeq(a, b) == a.n * b.d <= b.n * a.d
Zero == RatInt(0)

(***************************************************************************)
(* round(x, 2) and the rounding done by the format spec ".2f": the whole    *)
(* number of cents nearest to the double.  The code computes in doubles,    *)
(* the model in exact fractions of a cent; the two roundings agree unless   *)
(* the exact value is halfway between two cents.  The double computed for   *)
(* such a value is not that value but a neighbour of it, below it for some  *)
(* inputs ((100.05 / 30) * 3 is 10.004999999999999) and above it for others *)
(* ((0.45 / 30) * 1 is 0.015000000000000001), and the rounding follows the  *)
(* double: float_ties is the side on which it lies.                         *)
(***************************************************************************)
FloatTies == {"below", "above"}

round2(x) ==
    LET q == x.n \div x.d
        r == x.n % x.d
    IN  IF 2 * r < x.d THEN RatInt(q)
        ELSE IF 2 * r > x.d THEN RatInt(q + 1)
        ELSE IF float_ties = "below" THEN RatInt(q) ELSE RatInt(q + 1)

(***************************************************************************)
(* Python str operations, on sequences of one-character strings.           *)
(***************************************************************************)
Digits == <<"0", "1", "2", "3", "4", "5", "6", "7", "8", "9">>

DigitValue(c) == CHOOSE k \in 0..9 : Digits[k + 1] = c
IsDigit(c) == \E k \in 0..9 : Digits[k + 1] = c

StartsWith(s, p) == Len(s) >= Len(p) /\ SubSeq(s, 1, Len(p)) = p

RECURSIVE str_replace(_, _, _)
str_replace(s, old, new) ==
    IF s = <<>> THEN <<>>
    ELSE IF StartsWith(s, old)
         THEN new \o str_replace(SubSeq(s, Len(old) + 1, Len(s)), old, new)
         ELSE <<Head(s)>> \o str_replace(Tail(s), old, new)

RECURSIVE str_strip(_)
str_strip(s) ==
    IF s = <<>> THEN s
    ELSE IF Head(s) = " " THEN str_strip(Tail(s))
    ELSE IF s[Len(s)] = " " THEN str_strip(SubSeq(s, 1, Len(s) - 1))
    ELSE s

RECURSIVE NatToStr(_)
NatToStr(k) ==
    IF k < 10 THEN <<Digits[k + 1]>>
    ELSE NatToStr(k \div 10) \o <<Digits[(k % 10) + 1]>>

RECURSIVE StrToNat(_)
StrToNat(s) ==
    IF s = <<>> THEN 0
    ELSE 10 * StrToNat(SubSeq(s, 1, Len(s) - 1)) + DigitValue(s[Len(s)])

RECURSIVE Pow10(_)
Pow10(k) == IF k = 0 THEN 1 ELSE 10 * Pow10(k - 1)

\* the "," option of the format spec: a comma every three digits
RECURSIVE GroupThousands(_)
GroupThousands(s) ==
    IF Len(s) <= 3 THEN s
    ELSE GroupThousands(SubSeq(s, 1, Len(s) - 3)) \o <<",">>
         \o SubSeq(s, Len(s) - 2, Len(s))

\* f"{valor:,.2f}" for a value given in cents
format_2f(valor) ==
    LET c == Abs(round2(valor).n)
        sign == IF valor.n < 0 THEN <<"-">> ELSE <<>>
    IN  sign \o GroupThousands(NatToStr(c \div 100)) \o <<".">>
        \o <<Digits[((c % 100) \div 10) + 1], Digits[(c % 10) + 1]>>

formatar_moeda(valor) ==
    str_replace(str_replace(str_replace(<<"R", "$">> \o format_2f(valor),
                                        <<",">>, <<"X">>),
                            <<".">>, <<",">>),
                <<"X">>, <<".">>)

\* float(s) for a decimal literal: [ok |-> parsed, val |-> value in cents]
py_float(s) ==
    LET neg == s # <<>> /\ Head(s) = "-"
        body == IF s # <<>> /\ Head(s) \in {"-", "+"} THEN Tail(s) ELSE s
        dots == {i \in 1..Len(body) : body[i] = "."}
        dot == IF dots = {} THEN Len(body) + 1 ELSE CHOOSE i \in dots : TRUE
        ip == SubSeq(body, 1, dot - 1)
        fp == SubSeq(body, dot + 1, Len(body))
        ok == /\ Cardinality(dots) <= 1
              /\ Len(ip) + Len(fp) > 0
              /\ \A i \in 1..Len(ip) : IsDigit(ip[i])
              /\ \A i \in 1..Len(fp) : IsDigit(fp[i])
        mag == Rat((StrToNat(ip) * Pow10(Len(fp)) + StrToNat(fp)) * 100,
                   Pow10(Len(fp)))
    IN  IF ok THEN [ok |-> TRUE, val |-> IF neg THEN RatSub(Zero, mag) ELSE mag]
        ELSE [ok |-> FALSE, val |-> Zero]

\* the clean-up both parsers apply to a currency string before float()
clean_moeda(s) ==
    str_strip(str_replace(str_replace(str_replace(s, <<"R", "$">>, <<>>),
                                      <<".">>, <<>>),
                          <<",">>, <<".">>))

\* mutant: the thousands separators are left in the string
moeda_para_float_keepdots(valor_str) ==
    LET f == py_float(str_strip(str_replace(str_replace(valor_str, <<"R", "$">>, <<>>),
                                            <<",">>, <<".">>)))
    IN  IF f.ok THEN f.val ELSE Zero

\* the str branch; a numeric argument is returned as float(valor_str)
moeda_para_float(valor_str) ==
    LET f == py_float(clean_moeda(valor_str))
    IN  IF f.ok THEN f.val ELSE Zero

(***************************************************************************)
(* np.busday_count with the default weekmask (Monday to Friday).           *)
(***************************************************************************)
NumpyBuilds == {"swap", "swap_shift"}

is_busday(d) == d % 7 < 5

RECURSIVE count_valid_days(_, _)
count_valid_days(b, e) ==
    IF b >= e THEN 0
    ELSE (IF is_busday(b) THEN 1 ELSE 0) + count_valid_days(b + 1, e)

\* begin > end: numpy swaps the dates and negates the count; builds since
\* 1.25 first shift both dates by one day, earlier builds do not
busday_count(begin, end, build) ==
    IF begin = end THEN 0
    ELSE IF begin < end THEN count_valid_days(begin, end)
    ELSE IF build = "swap_shift" THEN 0 - count_valid_days(end + 1, begin + 1)
    ELSE 0 - count_valid_days(end, begin)

(***************************************************************************)
(* Service types and their SLA thresholds.                                 *)
(***************************************************************************)
Preventiva == "Preventiva - 2 dias uteis"
Corretiva == "Corretiva - 3 dias uteis"
PrevCorr == "Preventiva + Corretiva - 5 dias uteis"
Motor == "Motor - 15 dias uteis"
Outro == "Outro"

\* the options of the two selectboxes
Servicos == {Preventiva, Corretiva, PrevCorr, Motor}

\* the dict literal of calcular_cenario_comparativo
sla_dict == (Preventiva :> 2) @@ (Corretiva :> 3) @@ (PrevCorr :> 5) @@ (Motor :> 15)

\* the dict literal of the calc_simples screen
sla_map == (Preventiva :> 2) @@ (Corretiva :> 3) @@ (PrevCorr :> 5) @@ (Motor :> 15)

\* dict.get(key, default)
dict_get(dict, key, default) == IF key \in DOMAIN dict THEN dict[key] ELSE default

\* prazo_sla of the calc_simples screen
simples_prazo_sla(tipo_servico) == dict_get(sla_map, tipo_servico, 0)

(***************************************************************************)
(* calcular_cenario_comparativo, one definition per local variable.        *)
(***************************************************************************)
\* mutant: the end date taken as exclusive
cenario_dias_exclusive(entrada, saida, build) == busday_count(entrada, saida, build)

cenario_dias(entrada, saida, build) == busday_count(entrada, saida + 1, build)

\* mutant: no clamp at zero
cenario_dias_uteis_unclamped(dias, feriados) == dias - feriados

cenario_dias_uteis(dias, feriados) == Max(dias - feriados, 0)

\* mutant: an unknown key falls back to the smallest threshold
cenario_sla_dias_default2(servico) == dict_get(sla_dict, servico, 2)

cenario_sla_dias(servico) == dict_get(sla_dict, servico, 0)

\* mutant: no clamp at zero
cenario_excedente_unclamped(dias_uteis, sla_dias) == dias_uteis - sla_dias

cenario_excedente(dias_uteis, sla_dias) == Max(0, dias_uteis - sla_dias)

\* mutant: the daily rate of a 31-day month
cenario_desconto_31(mensalidade, excedente) ==
    IF excedente > 0 THEN RatMulInt(py_truediv(mensalidade, 31).val, excedente)
    ELSE Zero

cenario_desconto(mensalidade, excedente) ==
    IF excedente > 0 THEN RatMulInt(py_truediv(mensalidade, 30).val, excedente)
    ELSE Zero

\* whether evaluating the desconto expression raises
cenario_raised(mensalidade, excedente) ==
    excedente > 0 /\ py_truediv(mensalidade, 30).raised

RECURSIVE cenario_total_pecas(_)
cenario_total_pecas(pecas) ==
    IF pecas = <<>> THEN Zero
    ELSE RatAdd(Head(pecas).valor, cenario_total_pecas(Tail(pecas)))

\* mutant: the discount is added instead of subtracted
cenario_total_final_plus(mensalidade, desconto, total_pecas) ==
    RatAdd(RatAdd(mensalidade, desconto), total_pecas)

cenario_total_final(mensalidade, desconto, total_pecas) ==
    RatAdd(RatSub(mensalidade, desconto), total_pecas)

\* the locals at the return statement, and the dict returned (ret)
calcular_cenario_comparativo(cliente, placa, entrada, saida, feriados, servico, pecas, mensalidade, build) ==
    LET dias == cenario_dias(entrada, saida, build)
        dias_uteis == cenario_dias_uteis(dias, feriados)
        sla_dias == cenario_sla_dias(servico)
        excedente == cenario_excedente(dias_uteis, sla_dias)
        desconto == cenario_desconto(mensalidade, excedente)
        total_pecas == cenario_total_pecas(pecas)
        total_final == cenario_total_final(mensalidade, desconto, total_pecas)
    IN  [raised |-> cenario_raised(mensalidade, excedente),
         dias |-> dias, dias_uteis |-> dias_uteis, sla_dias |-> sla_dias,
         excedente |-> excedente, desconto |-> desconto,
         total_pecas |-> total_pecas, total_final |-> total_final,
         ret |-> [Cliente |-> cliente, Placa |-> placa,
                  DataEntrada |-> entrada, DataSaida |-> saida,
                  Servico |-> servico, DiasUteis |-> dias_uteis,
                  SLADias |-> sla_dias, Excedente |-> excedente,
                  Mensalidade |-> formatar_moeda(mensalidade),
                  Desconto |-> formatar_moeda(round2(desconto)),
                  Pecas |-> formatar_moeda(round2(total_pecas)),
                  TotalFinal |-> formatar_moeda(round2(total_final)),
                  DetalhePecas |-> pecas]]

(***************************************************************************)
(* calcular_sla_simples.                                                   *)
(***************************************************************************)
DentroDoPrazo == "Dentro do prazo"
ForaDoPrazo == "Fora do prazo"

simples_dias(data_entrada, data_saida, build) ==
    busday_count(data_entrada, data_saida + 1, build)

\* mutant: no clamp at zero
simples_dias_uteis_unclamped(dias, feriados) == dias - feriados

simples_dias_uteis(dias, feriados) == Max(dias - feriados, 0)

\* mutant: a maintenance that takes exactly the threshold is out of SLA
simples_dentro_strict(dias, prazo_sla) == dias < prazo_sla

simples_dentro(dias, prazo_sla) == dias <= prazo_sla

\* mutant: operands swapped
simples_dias_excedente_swapped(dias, prazo_sla) == prazo_sla - dias

simples_dias_excedente(dias, prazo_sla) == dias - prazo_sla

\* mutant: the discount rounded to cents before it is returned
simples_desconto_rounded(valor_mensalidade, dias_excedente) ==
    round2(RatMulInt(py_truediv(valor_mensalidade, 30).val, dias_excedente))

simples_desconto(valor_mensalidade, dias_excedente) ==
    RatMulInt(py_truediv(valor_mensalidade, 30).val, dias_excedente)

\* whether the else branch raises
simples_raised(valor_mensalidade) == py_truediv(valor_mensalidade, 30).raised

\* the tuple returned (dias, status, desconto, dias_excedente), with the
\* argument prazo_sla and the value dias had before the holidays were
\* subtracted (dias0)
calcular_sla_simples(data_entrada, data_saida, prazo_sla, valor_mensalidade, feriados, build) ==
    LET dias0 == simples_dias(data_entrada, data_saida, build)
        dias == simples_dias_uteis(dias0, feriados)
    IN  IF simples_dentro(dias, prazo_sla)
        THEN [raised |-> FALSE, prazo_sla |-> prazo_sla,
              dias0 |-> dias0, dias |-> dias, status |-> DentroDoPrazo,
              desconto |-> Zero, dias_excedente |-> 0]
        ELSE [raised |-> simples_raised(valor_mensalidade), prazo_sla |-> prazo_sla,
              dias0 |-> dias0, dias |-> dias, status |-> ForaDoPrazo,
              desconto |-> simples_desconto(valor_mensalidade,
                                            simples_dias_excedente(dias, prazo_sla)),
              dias_excedente |-> simples_dias_excedente(dias, prazo_sla)]

(***************************************************************************)
(* The users table, the password policy and the password reset.            *)
(* An instant is a number of half seconds; the text strftime writes with   *)
(* "%Y-%m-%d %H:%M:%S" is <<the instant of its whole second>>, and the     *)
(* empty text is <<>>.                                                      *)
(***************************************************************************)
MaxTokens == 2
MaxAgora == 5401

strftime(t) == <<t - (t % 2)>>

\* datetime.strptime: raises on a text that is not a timestamp
strptime(s) ==
    IF Len(s) = 1 THEN [raised |-> FALSE, val |-> s[1]] ELSE [raised |-> TRUE, val |-> 0]

\* timedelta(minutes=30)
TrintaMinutos == 3600

\* secrets.token_urlsafe(32): the n-th token drawn
token_urlsafe(n) == <<"t">> \o NatToStr(n)

\* a hash is a str that verifies exactly the password it was made from
hash_password(password) == <<"$">> \o password

\* the first element of the pair verify_password returns
verify_password(stored_hash, provided_password) == stored_hash = hash_password(provided_password)

AsciiUpper == <<"A", "B", "C", "D", "E", "F", "G", "H", "I", "J", "K", "L", "M", "N", "O", "P", "Q", "R", "S", "T", "U", "V", "W", "X", "Y", "Z">>
AsciiLower == <<"a", "b", "c", "d", "e", "f", "g", "h", "i", "j", "k", "l", "m", "n", "o", "p", "q", "r", "s", "t", "u", "v", "w", "x", "y", "z">>
\* the characters matched by the class built from SPECIAL_CHARS (the grave
\* accent, which no password of the model contains, is not listed)
SpecialChars == {"!", "\"", "#", "$", "%", "&", "'", "(", ")", "*", "+", ",", "-", ".", "/", ":", ";", "<", "=", ">", "?", "@", "[", "\\", "]", "^", "_", "{", "|", "}", "~"}

\* str.lower()
str_lower(s) ==
    [i \in 1..Len(s) |->
        IF \E k \in 1..26 : AsciiUpper[k] = s[i]
        THEN AsciiLower[CHOOSE k \in 1..26 : AsciiUpper[k] = s[i]]
        ELSE s[i]]

\* sub in s
str_in(sub, s) == \E i \in 0..(Len(s) - Len(sub)) : SubSeq(s, i + 1, i + Len(sub)) = sub

\* re.search of a one-character class
re_search(classe, s) == \E i \in 1..Len(s) : s[i] \in classe

\* s.split("@")[0]
RECURSIVE split_arroba_0(_)
split_arroba_0(s) ==
    IF s = <<>> \/ Head(s) = "@" THEN <<>>
    ELSE <<Head(s)>> \o split_arroba_0(Tail(s))

PASSWORD_MIN_LEN == 10

\* the first element of the pair validate_password_policy returns
validate_password_policy(password, username, email) ==
    /\ Len(password) >= PASSWORD_MIN_LEN
    /\ re_search({AsciiUpper[k] : k \in 1..26}, password)
    /\ re_search({AsciiLower[k] : k \in 1..26}, password)
    /\ re_search({Digits[k] : k \in 1..10}, password)
    /\ re_search(SpecialChars, password)
    /\ \E uname \in {str_lower(str_strip(username))} :
           ~(uname # <<>> /\ str_in(uname, str_lower(password)))
    /\ \E local_email \in {str_lower(str_strip(split_arroba_0(email)))} :
           ~(local_email # <<>> /\ str_in(local_email, str_lower(password)))

SenhaJoao == <<"F", "r", "o", "t", "a", "#", "2", "0", "2", "4", "a">>
SenhaAdmin == <<"A", "d", "m", "i", "n", "#", "2", "0", "2", "4", "a">>
SenhaNova == <<"N", "o", "v", "a", "$", "S", "e", "n", "h", "a", "9">>
SenhaComUsuario == <<"x", "J", "o", "a", "o", "#", "2", "0", "2", "4", "a">>
SenhaCurta == <<"A", "b", "1", "#">>
EmailJoao == <<"j", "o", "a", "o", "@", "v", ".", "b", "r">>
EmailAdmin == <<"a", "d", "m", "@", "v", ".", "b", "r">>
EmailMaria == <<"m", "a", "r", "i", "a", "@", "v", ".", "b", "r">>

\* load_user_db(): the rows of the table 'users' the reset works on
UsersDb ==
    << [username |-> <<"j", "o", "a", "o">>, password |-> hash_password(SenhaJoao),
        email |-> EmailJoao, status |-> "aprovado", reset_token |-> <<>>,
        reset_expires_at |-> <<>>, last_password_change |-> <<>>,
        force_password_reset |-> "1"],
       [username |-> <<"a", "d", "m", "i", "n">>, password |-> hash_password(SenhaAdmin),
        email |-> EmailAdmin, status |-> "aprovado", reset_token |-> <<>>,
        reset_expires_at |-> <<>>, last_password_change |-> <<>>,
        force_password_reset |-> ""],
       [username |-> <<"m", "a", "r", "i", "a">>, password |-> <<>>,
        email |-> EmailMaria, status |-> "pendente", reset_token |-> <<>>,
        reset_expires_at |-> <<>>, last_password_change |-> <<>>,
        force_password_reset |-> ""] >>

\* save_user_db: the upsert stores the table, or raises and the error is shown
save_user_db(us, df, save_ok) == IF save_ok THEN df ELSE us

\* the index of the first row of df that has the property, 0 when none has
primeiro(df, tem) ==
    IF \E i \in 1..Len(df) : tem[i]
    THEN CHOOSE i \in 1..Len(df) : tem[i] /\ \A j \in 1..(i - 1) : ~tem[j]
    ELSE 0

\* "Enviar link" on the forgot_password screen, for an e-mail that is not
\* blank; token is the token drawn if one is drawn
forgot_password_enviar(us, email, token, now, save_ok) ==
    LET idx == primeiro(us, [i \in 1..Len(us) |->
                   str_lower(str_strip(us[i].email)) = str_lower(str_strip(email))])
    IN  IF idx = 0 THEN [users |-> us, drawn |-> FALSE, erro |-> "E-mail nao encontrado."]
        ELSE IF us[idx].status # "aprovado"
        THEN [users |-> us, drawn |-> FALSE,
              erro |-> "Seu cadastro ainda nao foi aprovado pelo administrador."]
        ELSE [users |-> save_user_db(us,
                            [us EXCEPT ![idx].reset_token = token,
                                       ![idx].reset_expires_at = strftime(now + TrintaMinutos)],
                            save_ok),
              drawn |-> TRUE,
              erro |-> IF save_ok THEN "" ELSE "Erro ao salvar usuarios no Supabase."]

\* mutant: the token stays in the row after the password was changed
senha_redefinida_token_mantido(row, new_pass, now) ==
    [row EXCEPT !.password = hash_password(new_pass),
                !.last_password_change = strftime(now),
                !.force_password_reset = ""]

\* the row of a user whose password was reset
senha_redefinida(row, new_pass, now) ==
    [row EXCEPT !.password = hash_password(new_pass),
                !.reset_token = <<>>,
                !.reset_expires_at = <<>>,
                !.last_password_change = strftime(now),
                !.force_password_reset = ""]

\* whether the token of the row is expired at the instant now
token_expirado(row, now) ==
    IF strptime(row.reset_expires_at).raised THEN TRUE
    ELSE now > strptime(row.reset_expires_at).val

\* the part of the reset after the rows with that token were looked up
redefinir_com_token(us, idx, new_pass, now, save_ok) ==
    IF idx = 0 THEN [users |-> us, changed |-> FALSE, erro |-> "Token invalido."]
    ELSE IF token_expirado(us[idx], now)
    THEN [users |-> us, changed |-> FALSE, erro |-> "Token expirado. Solicite novamente."]
    ELSE IF ~validate_password_policy(new_pass, us[idx].username, us[idx].email)
    THEN [users |-> us, changed |-> FALSE, erro |-> "Regras de senha nao atendidas."]
    ELSE IF verify_password(us[idx].password, new_pass)
    THEN [users |-> us, changed |-> FALSE,
          erro |-> "A nova senha nao pode ser igual a senha atual."]
    ELSE [users |-> save_user_db(us, [us EXCEPT ![idx] = senha_redefinida(us[idx], new_pass, now)],
                                 save_ok),
          changed |-> save_ok,
          erro |-> IF save_ok THEN "" ELSE "Erro ao salvar usuarios no Supabase."]

\* "Redefinir senha" on the reset_password screen; changed tells whether the
\* table was written
reset_password_confirmar(us, token, new_pass, new_pass2, now, save_ok) ==
    IF str_strip(token) = <<>>
    THEN [users |-> us, changed |-> FALSE, erro |-> "Token e obrigatorio."]
    ELSE IF new_pass = <<>> \/ new_pass2 = <<>>
    THEN [users |-> us, changed |-> FALSE, erro |-> "Informe e confirme a nova senha."]
    ELSE IF new_pass # new_pass2
    THEN [users |-> us, changed |-> FALSE, erro |-> "As senhas nao conferem."]
    ELSE redefinir_com_token(us, primeiro(us, [i \in 1..Len(us) |-> us[i].reset_token = token]),
                             new_pass, now, save_ok)

\* the table before any reset was asked for
UsersInit ==
    /\ users = UsersDb
    /\ agora = 0
    /\ tokens = 0
    /\ redefinicoes = <<>>

(***************************************************************************)
(* The evaluators applied to bounded inputs.                               *)
(***************************************************************************)
EvalServicos == Servicos \cup {Outro}
EvalMensalidades == {RatInt(0), RatInt(300000), RatInt(10005)}
EvalPecas == {<<>>, <<[nome |-> "filtro", valor |-> RatInt(15000)]>>}

EvalArgs ==
    [entrada : 0..MaxEntrada, saida : 0..MaxDay, feriados : 0..MaxFeriados,
     servico : EvalServicos, mensalidade : EvalMensalidades, pecas : EvalPecas]

\* the calc_simples screen looks the threshold up and calls the evaluator
EvalSimples ==
    /\ retS = <<>>
    /\ retS' = <<calcular_sla_simples(args.entrada, args.saida,
                                    simples_prazo_sla(args.servico),
                                    args.mensalidade, args.feriados, numpy_build)>>
    /\ UNCHANGED <<users, agora, tokens, redefinicoes, numpy_build, float_ties, args, retC>>
    /\ UNCHANGED sessVars

EvalCenario ==
    /\ retC = <<>>
    /\ retC' = <<calcular_cenario_comparativo("cliente", "ABC1D23", args.entrada,
                                            args.saida, args.feriados,
                                            args.servico, args.pecas,
                                            args.mensalidade, numpy_build)>>
    /\ UNCHANGED <<users, agora, tokens, redefinicoes, numpy_build, float_ties, args, retS>>
    /\ UNCHANGED sessVars

SessInit ==
    /\ session_state = [k \in {"tela"} |-> "home"]
    /\ view = <<>>
    /\ analises = <<>>
    /\ storage = <<>>
    /\ uuids = 0
    /\ delete_requests = <<>>
    /\ alias = {}
    /\ evento = [nome |-> "", entrada |-> 0, saida |-> 0]

EvalInit ==
    /\ numpy_build \in NumpyBuilds
    /\ float_ties \in FloatTies
    /\ UsersInit
    /\ args \in EvalArgs
    /\ retS = <<>>
    /\ retC = <<>>
    /\ SessInit

EvalNext == EvalSimples \/ EvalCenario

\* the evaluators applied to long maintenances: the date inputs of the forms
\* accept any exit date on or after the entry date
MaxPeriodo == 50
LongArgs ==
    [entrada : {0}, saida : 0..MaxPeriodo, feriados : 0..MaxFeriados,
     servico : Servicos, mensalidade : EvalMensalidades, pecas : EvalPecas]

LongInit ==
    /\ numpy_build \in NumpyBuilds
    /\ float_ties \in FloatTies
    /\ UsersInit
    /\ args \in LongArgs
    /\ retS = <<>>
    /\ retC = <<>>
    /\ SessInit

SpecLong == LongInit /\ [][EvalNext]_vars

SpecEval == EvalInit /\ [][EvalNext]_vars

(***************************************************************************)
(* The session, the analyses table, the Storage bucket and the screens.    *)
(***************************************************************************)
\* st.session_state.get(key, default)
ss_get(ss, key, default) == IF key \in DOMAIN ss THEN ss[key] ELSE default

\* st.session_state[key] = value
ss_set(ss, key, value) ==
    [k \in DOMAIN ss \cup {key} |-> IF k = key THEN value ELSE ss[k]]

\* del st.session_state[key] for every key of keys that is present
ss_del(ss, keys) == [k \in DOMAIN ss \ keys |-> ss[k]]

\* json.dumps / json.loads of dicts, lists, strings and ints
json_dumps(dados) == [json |-> dados]
json_loads(text) == text.json

\* str(uuid.uuid4()): the n-th identifier drawn
uuid4(n) == <<"u">> \o NatToStr(n)

\* carregar_base(): PLACA -> CLIENTE, VALOR MENSALIDADE (in cents)
BaseClientes == ("AAA1A11" :> [cliente |-> "Cliente A", mensalidade |-> RatInt(300000)])

\* what the calls to Supabase and the clock do during one script run:
\* which calls succeed, the second at which registrar_analise runs (agora)
\* and the seconds that pass until the pdf_path update (decorrido)
IOs ==
    [upload_ok : BOOLEAN, insert_ok : BOOLEAN, update_ok : BOOLEAN,
     upload_final_ok : BOOLEAN, agora : {0}, decorrido : {0, 1}]

SemFalhas ==
    [upload_ok |-> TRUE, insert_ok |-> TRUE, update_ok |-> TRUE,
     upload_final_ok |-> TRUE, agora |-> 0, decorrido |-> 1]

\* f"{tipo}_{username}_{id}_{timestamp}.pdf"
pdf_filename(tipo, username, id, stamp) ==
    [tipo |-> tipo, username |-> username, id |-> id, stamp |-> stamp]

\* supabase.storage.from_("pdfs").upload(path, file, file_options): the
\* bucket after the call; without "upsert" an existing path is an error
storage_upload(st, path, protocolo, upsert, ok) ==
    IF ok /\ (upsert \/ path \notin DOMAIN st)
    THEN [raised |-> FALSE, storage |-> (path :> protocolo) @@ st]
    ELSE [raised |-> TRUE, storage |-> st]

\* mutant: a failed upload of the PDF ends the registration
registrar_analise_abort(an, st, n, username, tipo, dados, pdf_protocolo, io) ==
    LET novo_id == uuid4(n + 1)
        novo_registro ==
            [id |-> novo_id, username |-> username, tipo |-> tipo,
             data_hora |-> io.agora, dados_json |-> json_dumps(dados),
             pdf_path |-> pdf_filename(tipo, username, novo_id, io.agora)]
    IN  [analises |-> IF io.insert_ok /\ io.upload_ok THEN Append(an, novo_registro) ELSE an,
         storage |-> storage_upload(st, novo_registro.pdf_path, pdf_protocolo,
                                    FALSE, io.upload_ok).storage,
         uuids |-> n + 1,
         id |-> IF io.insert_ok /\ io.upload_ok THEN novo_id ELSE <<>>]

\* registrar_analise with n identifiers drawn before the call; pdf_protocolo
\* is the protocol printed in pdf_bytes.  Returns the table, the bucket, the
\* number of identifiers drawn and the protocol ("" when the insert raised)
registrar_analise(an, st, n, username, tipo, dados, pdf_protocolo, io) ==
    LET novo_id == uuid4(n + 1)
        novo_registro ==
            [id |-> novo_id, username |-> username, tipo |-> tipo,
             data_hora |-> io.agora, dados_json |-> json_dumps(dados),
             pdf_path |-> pdf_filename(tipo, username, novo_id, io.agora)]
    IN  [analises |-> IF io.insert_ok THEN Append(an, novo_registro) ELSE an,
         storage |-> storage_upload(st, novo_registro.pdf_path, pdf_protocolo,
                                    FALSE, io.upload_ok).storage,
         uuids |-> n + 1,
         id |-> IF io.insert_ok THEN novo_id ELSE <<>>]

\* mutant: the update also rewrites the username of the row
update_pdf_path_touch(an, id, pdf_path) ==
    [i \in 1..Len(an) |->
        IF an[i].id = id
        THEN [an[i] EXCEPT !.pdf_path = pdf_path, !.username = ""]
        ELSE an[i]]

\* supabase.table('analises').update({"pdf_path": ...}).eq('id', id)
update_pdf_path(an, id, pdf_path) ==
    [i \in 1..Len(an) |->
        IF an[i].id = id THEN [an[i] EXCEPT !.pdf_path = pdf_path] ELSE an[i]]

\* "if protocolo_id_real:" of both calculators: the try block that points the
\* row at the final file name and uploads the PDF printed with the real id;
\* an update that raises skips the upload
atualizar_pdf(reg, tipo, username, io) ==
    IF reg.id # <<>> /\ io.update_ok
    THEN [analises |-> update_pdf_path(reg.analises, reg.id,
                           pdf_filename(tipo, username, reg.id, io.agora + io.decorrido)),
          storage |-> storage_upload(reg.storage,
                           pdf_filename(tipo, username, reg.id, io.agora + io.decorrido),
                           reg.id, TRUE, io.upload_final_ok).storage]
    ELSE [analises |-> reg.analises, storage |-> reg.storage]

\* Series.idxmin() over a RangeIndex: the label (from 0) of the first minimum
RECURSIVE idxmin_from(_, _, _)
idxmin_from(vals, i, best) ==
    IF i > Len(vals) THEN best - 1
    ELSE IF RatLess(vals[i], vals[best]) THEN idxmin_from(vals, i + 1, i)
    ELSE idxmin_from(vals, i + 1, best)

\* mutant: the label of the first row, whatever the values
pandas_idxmin_head(vals) == 0

pandas_idxmin(vals) == idxmin_from(vals, 2, 1)

\* df_cenarios["Total Final (R$)"].apply(moeda_para_float).idxmin()
comparativa_idx_min(lista) ==
    pandas_idxmin([i \in 1..Len(lista) |-> moeda_para_float(lista[i].TotalFinal)])

BlankView == [screen |-> "", idx_min |-> <<>>, melhor |-> <<>>,
              protocolo |-> <<>>, economia |-> <<>>, numero |-> 0, erro |-> "",
              notificacoes |-> {}]

\* the result branch after registrar_analise returned reg: the pdf_path
\* update, the final upload and what is displayed
comparativa_registrado(ss, reg, idx_min, io) ==
    [ss |-> ss,
     analises |-> atualizar_pdf(reg, "cenarios", ss_get(ss, "username", ""), io).analises,
     storage |-> atualizar_pdf(reg, "cenarios", ss_get(ss, "username", ""), io).storage,
     uuids |-> reg.uuids,
     view |-> [BlankView EXCEPT !.screen = "resultado", !.idx_min = <<idx_min>>,
                                !.melhor = <<ss["cenarios"][idx_min + 1]>>,
                                !.protocolo = reg.id]]

\* the result branch with idx_min computed: melhor, the provisional protocol
\* (the identifier n + 1) and registrar_analise
comparativa_melhor(ss, an, st, n, idx_min, io) ==
    comparativa_registrado(
        ss,
        registrar_analise(an, st, n + 1, ss_get(ss, "username", ""), "cenarios",
                          [cenarios |-> ss["cenarios"],
                           melhor |-> ss["cenarios"][idx_min + 1]],
                          uuid4(n + 1), io),
        idx_min, io)

\* the result branch of the calc_comparativa screen (mostrar_comparativo set)
comparativa_resultado(ss, an, st, n, io) ==
    comparativa_melhor(ss, an, st, n, comparativa_idx_min(ss["cenarios"]), io)

\* the three keys the calc_comparativa screen creates when they are absent
comparativa_defaults(ss) ==
    [k \in DOMAIN ss \cup {"cenarios", "pecas_atuais", "mostrar_comparativo"} |->
        IF k \in DOMAIN ss THEN ss[k]
        ELSE IF k = "mostrar_comparativo" THEN FALSE
        ELSE <<>>]

\* one run of the script on the calc_comparativa screen
tela_calc_comparativa(ss, an, st, n, io) ==
    IF ss_get(ss, "mostrar_comparativo", FALSE)
    THEN comparativa_resultado(comparativa_defaults(ss), an, st, n, io)
    ELSE [ss |-> comparativa_defaults(ss), analises |-> an, storage |-> st, uuids |-> n,
          view |-> [BlankView EXCEPT !.screen = "formulario",
                        !.numero = Len(ss_get(ss, "cenarios", <<>>)) + 1]]

\* st.session_state.resultado_sla of the calc_simples screen
simples_resultado_sla(cliente, placa_in, tipo_servico, data_entrada, data_saida, feriados, mensalidade, build) ==
    LET prazo_sla == simples_prazo_sla(tipo_servico)
        r == calcular_sla_simples(data_entrada, data_saida, prazo_sla, mensalidade,
                                  feriados, build)
    IN  [cliente |-> IF cliente = "" THEN "-" ELSE cliente,
         placa |-> IF placa_in = "" THEN "-" ELSE placa_in,
         tipo_servico |-> tipo_servico,
         dias_uteis_manut |-> r.dias, prazo_sla |-> prazo_sla,
         dias_excedente |-> r.dias_excedente, mensalidade |-> mensalidade,
         desconto |-> r.desconto, status |-> r.status]

\* the else branch of "Calcular SLA" after registrar_analise returned reg:
\* the protocol added to resultado_sla and the pdf_path update
simples_registrado(ss, res, reg, io) ==
    [ss |-> ss_set(ss, "resultado_sla",
                   IF reg.id # <<>> THEN [protocolo |-> reg.id] @@ res ELSE res),
     analises |-> atualizar_pdf(reg, "sla_mensal", ss_get(ss, "username", ""), io).analises,
     storage |-> atualizar_pdf(reg, "sla_mensal", ss_get(ss, "username", ""), io).storage,
     uuids |-> reg.uuids]

\* the else branch of "Calcular SLA" with resultado_sla computed (res): the
\* provisional protocol (the identifier n + 1) and registrar_analise
simples_calculado(ss, an, st, n, res, io) ==
    simples_registrado(
        ss, res,
        registrar_analise(an, st, n + 1, ss_get(ss, "username", ""), "sla_mensal",
                          res, uuid4(n + 1), io),
        io)

\* mutant: the dates are not compared
simples_erro_sem_datas(placa_in, cliente, data_entrada, data_saida, mensalidade) ==
    IF placa_in = "" /\ cliente = "" THEN "Informe ao menos a placa ou o cliente."
    ELSE IF RatLeq(mensalidade, Zero) THEN "Informe um valor de mensalidade valido."
    ELSE ""

\* the message st.error shows for a rejected "Calcular SLA", "" when accepted
simples_erro(placa_in, cliente, data_entrada, data_saida, mensalidade) ==
    IF placa_in = "" /\ cliente = "" THEN "Informe ao menos a placa ou o cliente."
    ELSE IF data_entrada >= data_saida
         THEN "A data de saida deve ser posterior a data de entrada."
    ELSE IF RatLeq(mensalidade, Zero) THEN "Informe um valor de mensalidade valido."
    ELSE ""

\* one run of the script on the calc_simples screen: the column "Resultado"
tela_calc_simples(ss, an, st, n) ==
    [ss |-> ss, analises |-> an, storage |-> st, uuids |-> n,
     view |-> [BlankView EXCEPT !.screen = "calc_simples",
                   !.protocolo =
                       IF "resultado_sla" \in DOMAIN ss
                          /\ "protocolo" \in DOMAIN ss["resultado_sla"]
                       THEN ss["resultado_sla"].protocolo ELSE <<>>]]

\* mutant: a difference of zero is reported too
calcular_economia_zero(row) ==
    IF row.tipo = "cenarios"
    THEN LET lista == json_loads(row.dados_json).cenarios
             parsed == [i \in 1..Len(lista) |-> py_float(clean_moeda(lista[i].TotalFinal))]
             valores == {parsed[i].val : i \in {j \in 1..Len(lista) : parsed[j].ok}}
             n == Cardinality({j \in 1..Len(lista) : parsed[j].ok})
             menor == CHOOSE v \in valores : \A w \in valores : RatLeq(v, w)
             maior == CHOOSE v \in valores : \A w \in valores : RatLeq(w, v)
         IN  IF n > 1 /\ RatLeq(Zero, RatSub(maior, menor))
             THEN formatar_moeda(RatSub(maior, menor))
             ELSE <<>>
    ELSE <<>>

calcular_economia(row) ==
    IF row.tipo = "cenarios"
    THEN LET lista == json_loads(row.dados_json).cenarios
             parsed == [i \in 1..Len(lista) |-> py_float(clean_moeda(lista[i].TotalFinal))]
             valores == {parsed[i].val : i \in {j \in 1..Len(lista) : parsed[j].ok}}
             n == Cardinality({j \in 1..Len(lista) : parsed[j].ok})
             menor == CHOOSE v \in valores : \A w \in valores : RatLeq(v, w)
             maior == CHOOSE v \in valores : \A w \in valores : RatLeq(w, v)
         IN  IF n > 1 /\ RatLess(Zero, RatSub(maior, menor))
             THEN formatar_moeda(RatSub(maior, menor))
             ELSE <<>>
    ELSE <<>>

user_is_admin(ss) == ss_get(ss, "role", "") \in {"admin", "superadmin"}

SUPERADMIN_USERNAME == "lucas.sureira"

user_is_superadmin(ss) ==
    ss_get(ss, "username", "") = SUPERADMIN_USERNAME \/ ss_get(ss, "role", "") = "superadmin"

\* one run of the script on the relatorio_analises screen (no filter chosen):
\* the column "Economia", one entry per row of the table
tela_relatorio_analises(ss, an, st, n) ==
    IF ~user_is_admin(ss)
    THEN [ss |-> ss_set(ss, "tela", "home"), analises |-> an, storage |-> st,
          uuids |-> n, view |-> BlankView]
    ELSE [ss |-> ss, analises |-> an, storage |-> st, uuids |-> n,
          view |-> [BlankView EXCEPT !.screen = "relatorio",
                        !.economia = [i \in 1..Len(an) |-> calcular_economia(an[i])]]]

\* one run of the script on the admin_delete_requests screen
tela_admin_delete_requests(ss, an, st, n) ==
    IF ~user_is_admin(ss)
    THEN [ss |-> ss_set(ss, "tela", "home"), analises |-> an, storage |-> st,
          uuids |-> n, view |-> BlankView]
    ELSE [ss |-> ss, analises |-> an, storage |-> st, uuids |-> n,
          view |-> [BlankView EXCEPT !.screen = "admin_delete_requests"]]

\* one run of the script on the historico_pessoal screen
tela_historico_pessoal(ss, an, st, n) ==
    [ss |-> ss, analises |-> an, storage |-> st, uuids |-> n,
     view |-> [BlankView EXCEPT !.screen = "historico_pessoal"]]

\* the session keys whose name starts with "ia_"
IaKeys == {"ia_chat", "ia_history", "ia_model", "ia_model_name"}

\* the first "if st.session_state.get('__do_logout')" block
logout_block(ss) ==
    ss_set(ss_set(ss_del(ss, DOMAIN ss \ IaKeys), "tela", "login"),
           "__do_logout", FALSE)

\* the second "if st.session_state.get('__do_logout')" block, which keeps
\* the "ia_" keys and user_notifications
logout_block_2(ss) ==
    ss_set(ss_set(ss_del(ss, DOMAIN ss \ (IaKeys \cup {"user_notifications"})),
                  "tela", "login"),
           "__do_logout", FALSE)

\* the second routing block, reached with what the first one left
script_inicio_2(ss) ==
    IF ss_get(ss, "__do_logout", FALSE) THEN logout_block_2(ss) ELSE ss

\* the top of the script: the default screen and the first logout block,
\* which unsets __do_logout before its safe_rerun() starts the script again
script_inicio(ss) ==
    IF ss_get(ss, "__do_logout", FALSE)
    THEN script_inicio_2(
             logout_block(IF "tela" \in DOMAIN ss THEN ss ELSE ss_set(ss, "tela", "login")))
    ELSE script_inicio_2(IF "tela" \in DOMAIN ss THEN ss ELSE ss_set(ss, "tela", "login"))

\* the ids of the requests shown as "REPROVADA" notifications: those of
\* st.session_state.user_notifications requested by the user of the session
reproved_requests(ss) ==
    {ss["user_notifications"][i].id :
        i \in {j \in 1..Len(ss["user_notifications"]) :
                  /\ ss["user_notifications"][j].requested_by = ss_get(ss, "username", "")
                  /\ ss["user_notifications"][j].status = "reprovado"}}

\* the notifications rendered above the screen r of a run on session ss
com_notificacoes(ss, r) ==
    [r EXCEPT !.view = [r.view EXCEPT !.notificacoes = reproved_requests(ss)]]

\* the notifications loaded on the first run of the authenticated area
area_autenticada(ss, dr) ==
    IF "user_notifications" \in DOMAIN ss THEN ss
    ELSE ss_set(ss, "user_notifications", dr)

\* the screens of the authenticated area, for a logged-in session
tela_autenticada(ss, an, st, n, io) ==
    IF ss["tela"] = "calc_comparativa" THEN tela_calc_comparativa(ss, an, st, n, io)
    ELSE IF ss["tela"] = "calc_simples" THEN tela_calc_simples(ss, an, st, n)
    ELSE IF ss["tela"] = "relatorio_analises" THEN tela_relatorio_analises(ss, an, st, n)
    ELSE IF ss["tela"] = "admin_delete_requests"
         THEN tela_admin_delete_requests(ss, an, st, n)
    ELSE IF ss["tela"] = "historico_pessoal" THEN tela_historico_pessoal(ss, an, st, n)
    ELSE [ss |-> ss, analises |-> an, storage |-> st, uuids |-> n,
          view |-> [BlankView EXCEPT !.screen = ss["tela"]]]

\* the routing after the top of the script
script_telas(ss, an, st, n, dr, io) ==
    IF ss["tela"] = "login" \/ ~ss_get(ss, "logado", FALSE)
    THEN [ss |-> ss_set(ss, "tela", "login"), analises |-> an, storage |-> st,
          uuids |-> n, view |-> [BlankView EXCEPT !.screen = "login"]]
    ELSE com_notificacoes(area_autenticada(ss, dr),
                          tela_autenticada(area_autenticada(ss, dr), an, st, n, io))

\* one run of the script
script_run(ss, an, st, n, dr, io) == script_telas(script_inicio(ss), an, st, n, dr, io)

(***************************************************************************)
(* The events: what the handler of a widget does, then the script run.     *)
(***************************************************************************)
\* whether the run of the script on this session inserts into 'analises'
RunInserts(ss) ==
    /\ ss_get(ss, "logado", FALSE)
    /\ ss["tela"] = "calc_comparativa"
    /\ ss_get(ss, "mostrar_comparativo", FALSE)

\* the session, the table, the bucket and the identifier count a handler leaves
Mundo(ss) == [ss |-> ss, analises |-> analises, storage |-> storage, uuids |-> uuids]

\* the run of the script that follows the handler; aviso is the message the
\* handler showed with st.error or st.warning
Run(w, dr, io, aviso) ==
    /\ RunInserts(script_inicio(w.ss)) =>
           (Len(w.analises) < MaxAnalises /\ w.uuids + 2 <= MaxUuids)
    /\ ~RunInserts(script_inicio(w.ss)) => io = SemFalhas
    /\ \E r \in {script_run(w.ss, w.analises, w.storage, w.uuids, dr, io)} :
           /\ session_state' = r.ss
           /\ analises' = r.analises
           /\ storage' = r.storage
           /\ uuids' = r.uuids
           /\ view' = [r.view EXCEPT !.erro = aviso]
    /\ delete_requests' = dr
    /\ UNCHANGED <<users, agora, tokens, redefinicoes, numpy_build, float_ties, args>>

\* the widget that was used, with the dates of its form
Evento(nome, entrada, saida) == [nome |-> nome, entrada |-> entrada, saida |-> saida]

\* what the event leaves besides the script run: the event itself, the
\* scenarios sharing the parts list, and the evaluator calls it made
Apos(ev, al, rs, rc) ==
    /\ evento' = ev
    /\ alias' = al
    /\ retS' = rs
    /\ retC' = rc

\* mutant: the form is rendered beside the result too
OnFormulario_sempre ==
    /\ ss_get(session_state, "logado", FALSE)
    /\ session_state["tela"] = "calc_comparativa"
    /\ "cenarios" \in DOMAIN session_state

OnFormulario ==
    /\ ss_get(session_state, "logado", FALSE)
    /\ session_state["tela"] = "calc_comparativa"
    /\ "cenarios" \in DOMAIN session_state
    /\ ~ss_get(session_state, "mostrar_comparativo", FALSE)

OnResultado ==
    /\ ss_get(session_state, "logado", FALSE)
    /\ session_state["tela"] = "calc_comparativa"
    /\ ss_get(session_state, "mostrar_comparativo", FALSE)

\* st.session_state.pecas_atuais.append(peca): the list object grows, and
\* with it the "Detalhe Pecas" of every scenario holding that object
pecas_append(ss, al, peca) ==
    [k \in DOMAIN ss |->
        IF k = "pecas_atuais" THEN Append(ss[k], peca)
        ELSE IF k = "cenarios"
             THEN [i \in 1..Len(ss[k]) |->
                      IF i \in al
                      THEN [ss[k][i] EXCEPT !.DetalhePecas = Append(@, peca)]
                      ELSE ss[k][i]]
        ELSE ss[k]]

\* "Detalhe Pecas": pecas or [] -- the scenario at position posicao holds the
\* list object it was given when that list is not empty, a new list otherwise
cenario_alias(pecas, posicao) == IF pecas # <<>> THEN {posicao} ELSE {}

\* mutant: the list is emptied in place, the key keeps its list object
pecas_rebind_in_place(al) == al

\* st.session_state.pecas_atuais = [...]: the key is bound to a new list
\* object, which no scenario holds
pecas_rebind(al) == {}

\* "Adicionar Peca"
AdicionarPeca(nome_peca, valor_peca) ==
    /\ OnFormulario
    /\ Len(session_state["pecas_atuais"]) < MaxPecas
    /\ IF nome_peca # "" /\ RatLess(Zero, valor_peca)
       THEN Run(Mundo(pecas_append(session_state, alias,
                                   [nome |-> nome_peca, valor |-> valor_peca])),
                delete_requests, SemFalhas, "")
       ELSE Run(Mundo(session_state), delete_requests, SemFalhas,
                "Preencha o nome e o valor da peca.")
    /\ Apos(Evento("adicionar_peca", 0, 0), alias, <<>>, <<>>)

\* "Remover Selecionadas", with the names chosen in the multiselect
RemoverPecas(nomes_para_remover) ==
    /\ OnFormulario
    /\ session_state["pecas_atuais"] # <<>>
    /\ IF nomes_para_remover # {}
       THEN /\ Run(Mundo(ss_set(session_state, "pecas_atuais",
                                SelectSeq(session_state["pecas_atuais"],
                                          LAMBDA p : p.nome \notin nomes_para_remover))),
                   delete_requests, SemFalhas, "")
            /\ Apos(Evento("remover_pecas", 0, 0), pecas_rebind(alias), <<>>, <<>>)
       ELSE /\ Run(Mundo(session_state), delete_requests, SemFalhas,
                   "Nenhuma peca foi selecionada.")
            /\ Apos(Evento("remover_pecas", 0, 0), alias, <<>>, <<>>)

\* the form "Calcular Cenario N"
CalcularCenario(placa, entrada, saida, feriados, servico) ==
    /\ OnFormulario
    /\ Len(session_state["cenarios"]) < MaxCenarios
    /\ IF placa \notin DOMAIN BaseClientes
       THEN /\ Run(Mundo(session_state), delete_requests, SemFalhas,
                   "Placa invalida ou nao encontrada para submeter.")
            /\ Apos(Evento("calcular_cenario", entrada, saida), alias, <<>>, <<>>)
       ELSE IF entrada >= saida
       THEN /\ Run(Mundo(session_state), delete_requests, SemFalhas,
                   "A data de saida deve ser posterior a de entrada.")
            /\ Apos(Evento("calcular_cenario", entrada, saida), alias, <<>>, <<>>)
       ELSE \E c \in {calcular_cenario_comparativo(
                          BaseClientes[placa].cliente, placa, entrada, saida,
                          feriados, servico, session_state["pecas_atuais"],
                          BaseClientes[placa].mensalidade, numpy_build)} :
                /\ Run(Mundo(ss_set(ss_set(session_state, "cenarios",
                                           Append(session_state["cenarios"], c.ret)),
                                    "pecas_atuais", <<>>)),
                       delete_requests, SemFalhas, "")
                /\ Apos(Evento("calcular_cenario", entrada, saida),
                        pecas_rebind(alias \cup
                            cenario_alias(session_state["pecas_atuais"],
                                          Len(session_state["cenarios"]) + 1)),
                        <<>>, <<c>>)

\* mutant: the button is offered from the first scenario on
botao_comparar_1(ss) ==
    Len(ss["cenarios"]) >= 1 /\ ~ss["mostrar_comparativo"]

\* whether the button "Comparar Cenarios" is rendered
botao_comparar(ss) ==
    Len(ss["cenarios"]) >= 2 /\ ~ss["mostrar_comparativo"]

\* "Comparar Cenarios"
CompararCenarios(io) ==
    /\ OnFormulario
    /\ session_state["cenarios"] # <<>>
    /\ botao_comparar(session_state)
    /\ Run(Mundo(ss_set(session_state, "mostrar_comparativo", TRUE)),
           delete_requests, io, "")
    /\ Apos(Evento("comparar", 0, 0), alias, <<>>, <<>>)

\* "Baixar Relatorio PDF": the click runs the script again
BaixarPDF(io) ==
    /\ OnResultado
    /\ Run(Mundo(session_state), delete_requests, io, "")
    /\ Apos(Evento("baixar_pdf", 0, 0), alias, <<>>, <<>>)

\* mutant: the scenario list is kept
limpar_dados_comparativos_parcial(ss) ==
    ss_del(ss, {"pecas_atuais", "mostrar_comparativo"})

limpar_dados_comparativos(ss) ==
    ss_del(ss, {"cenarios", "pecas_atuais", "mostrar_comparativo"})

limpar_dados_simples(ss) == ss_del(ss, {"resultado_sla", "pesquisa_cliente"})

\* "Reiniciar Comparacao" (on_click=limpar_dados_comparativos)
ReiniciarComparacao ==
    /\ OnResultado
    /\ Run(Mundo(limpar_dados_comparativos(session_state)), delete_requests, SemFalhas, "")
    /\ Apos(Evento("reiniciar", 0, 0), pecas_rebind(alias), <<>>, <<>>)

\* sidebar: "Limpar Calculo" (on_click=limpar_dados_comparativos)
LimparCalculo ==
    /\ ss_get(session_state, "logado", FALSE)
    /\ session_state["tela"] \in {"calc_comparativa", "calc_simples"}
    /\ Run(Mundo(limpar_dados_comparativos(session_state)), delete_requests, SemFalhas, "")
    /\ Apos(Evento("limpar", 0, 0), pecas_rebind(alias), <<>>, <<>>)

\* sidebar: "Voltar para Home", "Relatorio de Analises"; home: "Acessar
\* Analise de Cenarios", "Acessar SLA Mensal"
IrPara(destino, io) ==
    /\ ss_get(session_state, "logado", FALSE)
    /\ destino = "relatorio_analises" => user_is_admin(session_state)
    /\ destino = "admin_delete_requests" => user_is_superadmin(session_state)
    /\ destino \in {"calc_comparativa", "calc_simples"} => session_state["tela"] = "home"
    /\ session_state["tela"] # destino
    /\ Run(Mundo(ss_set(session_state, "tela", destino)), delete_requests, io, "")
    /\ Apos(Evento("ir_para", 0, 0), alias, <<>>, <<>>)

\* sidebar: "Sair (Logout)" (on_click=logout)
Logout ==
    /\ ss_get(session_state, "logado", FALSE)
    /\ Run(Mundo(ss_set(session_state, "__do_logout", TRUE)), delete_requests, SemFalhas, "")
    /\ Apos(Evento("logout", 0, 0), {}, <<>>, <<>>)

\* load_user_db(): users who accepted the terms and whose password is current
Usuarios ==
    ("admin" :> [role |-> "admin", status |-> "aprovado", email |-> "", full_name |-> "Admin"])
    @@ ("maria" :> [role |-> "user", status |-> "pendente", email |-> "", full_name |-> "Maria"])
    @@ ("joao" :> [role |-> "user", status |-> "aprovado", email |-> "", full_name |-> "Joao"])
    @@ (SUPERADMIN_USERNAME :> [role |-> "superadmin", status |-> "aprovado", email |-> "",
                                full_name |-> "Lucas"])

\* the session after the login form was accepted for row
login_aceito(ss, username, row) ==
    ss_set(ss_set(ss_set(ss_set(ss_set(ss_set(ss, "logado", TRUE),
                                       "username", username),
                                "role", row.role),
                         "email", row.email),
                  "full_name", row.full_name),
           "tela", "home")

\* mutant: the status of the account is not looked at
cadastro_aprovado_sempre(row) == TRUE

\* row.get("status", "") != "aprovado" keeps the user on the login screen
cadastro_aprovado(row) == row.status = "aprovado"

\* the login form; valid is what verify_password answers (recorded in the
\* event as 1 or 0)
Login(username, valid) ==
    /\ session_state["tela"] = "login"
    /\ IF username \notin DOMAIN Usuarios \/ ~valid
       THEN Run(Mundo(session_state), delete_requests, SemFalhas,
                "Usuario ou senha incorretos.")
       ELSE IF ~cadastro_aprovado(Usuarios[username])
       THEN Run(Mundo(session_state), delete_requests, SemFalhas,
                "Seu cadastro ainda esta pendente de aprovacao pelo administrador.")
       ELSE Run(Mundo(login_aceito(session_state, username, Usuarios[username])),
                delete_requests, SemFalhas, "")
    /\ Apos(Evento("login", IF valid THEN 1 ELSE 0, 0), alias, <<>>, <<>>)

\* "Calcular SLA" on the calc_simples screen
CalcularSLA(placa_in, cliente, mensalidade, data_entrada, data_saida, feriados, tipo_servico, io) ==
    /\ ss_get(session_state, "logado", FALSE)
    /\ session_state["tela"] = "calc_simples"
    /\ IF simples_erro(placa_in, cliente, data_entrada, data_saida, mensalidade) # ""
       THEN /\ io = SemFalhas
            /\ Run(Mundo(session_state), delete_requests, SemFalhas,
                   simples_erro(placa_in, cliente, data_entrada, data_saida, mensalidade))
            /\ Apos(Evento("calcular_sla", data_entrada, data_saida), alias, <<>>, <<>>)
       ELSE /\ Len(analises) < MaxAnalises
            /\ uuids + 2 <= MaxUuids
            /\ \E w \in {simples_calculado(
                             session_state, analises, storage, uuids,
                             simples_resultado_sla(cliente, placa_in, tipo_servico,
                                                   data_entrada, data_saida, feriados,
                                                   mensalidade, numpy_build),
                             io)} :
                   Run(w, delete_requests, SemFalhas, "")
            /\ Apos(Evento("calcular_sla", data_entrada, data_saida), alias,
                    <<calcular_sla_simples(data_entrada, data_saida,
                                           simples_prazo_sla(tipo_servico),
                                           mensalidade, feriados, numpy_build)>>,
                    <<>>)

\* "Limpar resultado" on the calc_simples screen
LimparResultado ==
    /\ ss_get(session_state, "logado", FALSE)
    /\ session_state["tela"] = "calc_simples"
    /\ "resultado_sla" \in DOMAIN session_state
    /\ Run(Mundo(limpar_dados_simples(session_state)), delete_requests, SemFalhas, "")
    /\ Apos(Evento("limpar_resultado", 0, 0), alias, <<>>, <<>>)

\* the id the database gives a new row of 'delete_requests'
delete_request_id(dr) ==
    IF dr = <<>> THEN 1
    ELSE 1 + CHOOSE m \in {dr[i].id : i \in 1..Len(dr)} :
                 \A i \in 1..Len(dr) : dr[i].id <= m

\* create_delete_request: the table after the call; ok is whether the
\* insert succeeded
create_delete_request(dr, analise_id, pdf_path, username, ok) ==
    IF ok
    THEN Append(dr, [id |-> delete_request_id(dr), analise_id |-> analise_id,
                     pdf_path |-> pdf_path, requested_by |-> username,
                     status |-> "pendente", reviewed_by |-> "",
                     review_notes |-> <<>>])
    ELSE dr

\* mutant: the delete call answers without deleting the row
delete_analise_noop(an, st, analise_id, pdf_path, delete_ok, remove_ok) ==
    IF ~delete_ok THEN [raised |-> TRUE, analises |-> an, storage |-> st]
    ELSE [raised |-> FALSE, analises |-> an,
          storage |-> IF remove_ok
                      THEN [q \in DOMAIN st \ {pdf_path} |-> st[q]]
                      ELSE st]

\* delete_analise: the row with that id leaves the table, then the file
\* leaves the bucket (a failure there is only a warning); a delete that
\* raises leaves both alone and raises again
delete_analise(an, st, analise_id, pdf_path, delete_ok, remove_ok) ==
    IF ~delete_ok THEN [raised |-> TRUE, analises |-> an, storage |-> st]
    ELSE [raised |-> FALSE,
          analises |-> SelectSeq(an, LAMBDA row : row.id # analise_id),
          storage |-> IF remove_ok
                      THEN [q \in DOMAIN st \ {pdf_path} |-> st[q]]
                      ELSE st]

\* review_delete_request: the status of the request, who reviewed it and
\* the notes (kept only for a rejection)
review_delete_request(dr, request_id, approved, reviewed_by, notes) ==
    [i \in 1..Len(dr) |->
        IF dr[i].id = request_id
        THEN [dr[i] EXCEPT !.status = IF approved THEN "aprovado" ELSE "reprovado",
                           !.reviewed_by = reviewed_by,
                           !.review_notes = IF approved THEN <<>> ELSE notes]
        ELSE dr[i]]

\* dismiss_delete_request: the table without the request
dismiss_delete_request(dr, request_id) ==
    SelectSeq(dr, LAMBDA req : req.id # request_id)

\* pending_deletion_ids of the historico_pessoal screen
pending_deletion_ids(dr, current_username) ==
    {dr[i].analise_id : i \in {j \in 1..Len(dr) :
                                  /\ dr[j].requested_by = current_username
                                  /\ dr[j].status = "pendente"}}

\* "Solicitar Exclusao" on the card of row k of the report
\* (on_click=create_delete_request)
SolicitarExclusao(k, ok) ==
    /\ ss_get(session_state, "logado", FALSE)
    /\ session_state["tela"] = "relatorio_analises"
    /\ user_is_admin(session_state)
    /\ k \in 1..Len(analises)
    /\ Len(delete_requests) < MaxRequests
    /\ Run(Mundo(session_state),
           create_delete_request(delete_requests, analises[k].id, analises[k].pdf_path,
                                 ss_get(session_state, "username", ""), ok),
           SemFalhas,
           IF ok THEN "" ELSE "Erro ao criar solicitacao.")
    /\ Apos(Evento("solicitar_exclusao", 0, 0), alias, <<>>, <<>>)

\* "Aprovar Exclusao" in the form of the pending request j: delete_analise,
\* then review_delete_request; either may raise
AprovarExclusao(j, delete_ok, remove_ok, review_ok) ==
    /\ ss_get(session_state, "logado", FALSE)
    /\ session_state["tela"] = "admin_delete_requests"
    /\ user_is_admin(session_state)
    /\ j \in 1..Len(delete_requests)
    /\ delete_requests[j].status = "pendente"
    /\ \E d \in {delete_analise(analises, storage, delete_requests[j].analise_id,
                                 delete_requests[j].pdf_path, delete_ok, remove_ok)} :
           Run([ss |-> session_state, analises |-> d.analises,
                storage |-> d.storage, uuids |-> uuids],
               IF ~d.raised /\ review_ok
               THEN review_delete_request(delete_requests, delete_requests[j].id, TRUE,
                                          ss_get(session_state, "username", ""), <<>>)
               ELSE delete_requests,
               SemFalhas,
               IF ~d.raised /\ review_ok THEN "" ELSE "Erro ao aprovar.")
    /\ Apos(Evento("aprovar_exclusao", 0, 0), alias, <<>>, <<>>)

\* "Reprovar" in the form of the pending request j, with the text of
\* "Motivo" (a Python str); review_delete_request may raise
ReprovarExclusao(j, notes, review_ok) ==
    /\ ss_get(session_state, "logado", FALSE)
    /\ session_state["tela"] = "admin_delete_requests"
    /\ user_is_admin(session_state)
    /\ j \in 1..Len(delete_requests)
    /\ delete_requests[j].status = "pendente"
    /\ IF str_strip(notes) = <<>>
       THEN Run(Mundo(session_state), delete_requests, SemFalhas,
                "O motivo e obrigatorio para reprovar.")
       ELSE IF ~review_ok
       THEN Run(Mundo(session_state), delete_requests, SemFalhas, "Erro ao reprovar.")
       ELSE Run(Mundo(session_state),
                review_delete_request(delete_requests, delete_requests[j].id, FALSE,
                                      ss_get(session_state, "username", ""), notes),
                SemFalhas, "")
    /\ Apos(Evento("reprovar_exclusao", 0, 0), alias, <<>>, <<>>)

\* "Solicitar Exclusao" on the card of row k of the personal history, which
\* is disabled while the user has a pending request for that analysis
SolicitarExclusaoPessoal(k, ok) ==
    /\ ss_get(session_state, "logado", FALSE)
    /\ session_state["tela"] = "historico_pessoal"
    /\ k \in 1..Len(analises)
    /\ analises[k].username = ss_get(session_state, "username", "")
    /\ analises[k].id \notin pending_deletion_ids(delete_requests,
                                                   ss_get(session_state, "username", ""))
    /\ Len(delete_requests) < MaxRequests
    /\ Run(Mundo(session_state),
           create_delete_request(delete_requests, analises[k].id, analises[k].pdf_path,
                                 ss_get(session_state, "username", ""), ok),
           SemFalhas,
           IF ok THEN "" ELSE "Erro ao criar solicitacao.")
    /\ Apos(Evento("solicitar_exclusao_pessoal", 0, 0), alias, <<>>, <<>>)

\* "Dispensar Notificacao" on the notification of request request_id
\* (on_click=dismiss_delete_request); ok is whether the delete succeeded
DispensarNotificacao(request_id, ok) ==
    /\ ss_get(session_state, "logado", FALSE)
    /\ request_id \in view.notificacoes
    /\ Run(Mundo(session_state),
           IF ok THEN dismiss_delete_request(delete_requests, request_id)
           ELSE delete_requests,
           SemFalhas,
           IF ok THEN "" ELSE "Erro ao dispensar notificacao.")
    /\ Apos(Evento("dispensar", request_id, 0), alias, <<>>, <<>>)

(***************************************************************************)
(* SpecCompare: one comparison, from the empty form to the report.         *)
(***************************************************************************)
CmpPlacas == {"AAA1A11", "ZZZ9Z99"}
CmpEntradas == {0}
CmpSaidas == {0, 9}
CmpServicos == {Corretiva, Motor}
CmpPecas == {[nome |-> "filtro", valor |-> RatInt(50000)],
             [nome |-> "", valor |-> RatInt(0)]}

\* the insert and the pdf_path update may fail; Storage answers
CmpIOs == {io \in IOs : io.upload_ok /\ io.upload_final_ok /\ io.decorrido = 1}

LoggedIn(tela) ==
    [k \in {"tela", "logado", "username", "role"} |->
        CASE k = "tela" -> tela
          [] k = "logado" -> TRUE
          [] k = "username" -> "admin"
          [] k = "role" -> "admin"]

CompareInit ==
    /\ numpy_build \in NumpyBuilds
    /\ float_ties = "below"
    /\ UsersInit
    /\ args = <<>>
    /\ retS = <<>>
    /\ retC = <<>>
    /\ session_state = script_run(LoggedIn("calc_comparativa"), <<>>, <<>>, 0, <<>>, SemFalhas).ss
    /\ view = script_run(LoggedIn("calc_comparativa"), <<>>, <<>>, 0, <<>>, SemFalhas).view
    /\ analises = <<>>
    /\ storage = <<>>
    /\ uuids = 0
    /\ delete_requests = <<>>
    /\ alias = {}
    /\ evento = Evento("", 0, 0)

CompareNext ==
    \/ \E p \in CmpPecas : AdicionarPeca(p.nome, p.valor)
    \/ \E placa \in CmpPlacas, entrada \in CmpEntradas, saida \in CmpSaidas,
          servico \in CmpServicos : CalcularCenario(placa, entrada, saida, 0, servico)
    \/ \E io \in CmpIOs : CompararCenarios(io)

SpecCompare == CompareInit /\ [][CompareNext]_vars

(***************************************************************************)
(* SpecReport: the report screen rendered over a table of one row.         *)
(***************************************************************************)
RECURSIVE PecasListas(_)
PecasListas(n) ==
    IF n = 0 THEN {<<>>}
    ELSE PecasListas(n - 1) \cup
         {Append(l, [nome |-> "filtro", valor |-> RatInt(50000)]) :
              l \in {m \in PecasListas(n - 1) : Len(m) = n - 1}}

\* the scenarios the form can append
RepCenarios(build) ==
    {calcular_cenario_comparativo(BaseClientes["AAA1A11"].cliente, "AAA1A11", 0, 9, 0,
                                  servico, pecas,
                                  BaseClientes["AAA1A11"].mensalidade, build).ret :
         servico \in CmpServicos, pecas \in PecasListas(MaxPecas)}

RepListas(build) == UNION {[1..n -> RepCenarios(build)] : n \in 1..MaxCenarios}

\* tables of one row: a comparison or a simple SLA result
RepTabelas(build) ==
    {registrar_analise(<<>>, <<>>, 1, "admin", "cenarios",
                       [cenarios |-> lista,
                        melhor |-> lista[comparativa_idx_min(lista) + 1]],
                       uuid4(1), SemFalhas).analises : lista \in RepListas(build)}
    \cup
    {registrar_analise(<<>>, <<>>, 1, "admin", "sla_mensal",
                       simples_resultado_sla("Cliente A", "AAA1A11", servico, 0, 9, 0,
                                             RatInt(300000), build),
                       uuid4(1), SemFalhas).analises : servico \in CmpServicos}

ReportInit ==
    /\ numpy_build \in NumpyBuilds
    /\ float_ties = "below"
    /\ UsersInit
    /\ args = <<>>
    /\ retS = <<>>
    /\ retC = <<>>
    /\ session_state = LoggedIn("home")
    /\ view = BlankView
    /\ analises \in RepTabelas(numpy_build)
    /\ storage = <<>>
    /\ uuids = 2
    /\ delete_requests = <<>>
    /\ alias = {}
    /\ evento = Evento("", 0, 0)

ReportNext == IrPara("relatorio_analises", SemFalhas)

SpecReport == ReportInit /\ [][ReportNext]_vars

(***************************************************************************)
(* SpecSession: one browser session, from the login screen on, that uses   *)
(* the scenario comparison.                                                *)
(***************************************************************************)
\* the form submissions: plate, entry date, exit date
SessForms == {<<"AAA1A11", 0, 9>>, <<"AAA1A11", 9, 9>>, <<"AAA1A11", 9, 0>>,
              <<"ZZZ9Z99", 0, 9>>}
SessServicos == {Corretiva}
SessPecas == {[nome |-> "filtro", valor |-> RatInt(50000)],
              [nome |-> "", valor |-> RatInt(0)]}
SessIOs == {SemFalhas}
SessTelas == {"home", "calc_comparativa"}
\* the names typed in the login form: approved, pending, unknown
SessUsuarios == {"admin", "maria", "ninguem"}

SessionInit ==
    /\ numpy_build \in NumpyBuilds
    /\ float_ties = "below"
    /\ UsersInit
    /\ args = <<>>
    /\ retS = <<>>
    /\ retC = <<>>
    /\ session_state = script_run(<<>>, <<>>, <<>>, 0, <<>>, SemFalhas).ss
    /\ view = script_run(<<>>, <<>>, <<>>, 0, <<>>, SemFalhas).view
    /\ analises = <<>>
    /\ storage = <<>>
    /\ uuids = 0
    /\ delete_requests = <<>>
    /\ alias = {}
    /\ evento = Evento("", 0, 0)

SessionNext ==
    \/ \E username \in SessUsuarios, valid \in BOOLEAN : Login(username, valid)
    \/ Logout
    \/ \E destino \in SessTelas, io \in SessIOs : IrPara(destino, io)
    \/ LimparCalculo
    \/ \E p \in SessPecas : AdicionarPeca(p.nome, p.valor)
    \/ \E nomes \in SUBSET {"filtro"} : RemoverPecas(nomes)
    \/ \E f \in (IF Len(ss_get(session_state, "cenarios", <<>>)) < SessCenarios
                  THEN SessForms ELSE {}), servico \in SessServicos :
           CalcularCenario(f[1], f[2], f[3], 0, servico)
    \/ \E io \in SessIOs : CompararCenarios(io)
    \/ \E io \in SessIOs : BaixarPDF(io)
    \/ ReiniciarComparacao

SpecSession == SessionInit /\ [][SessionNext]_vars

(***************************************************************************)
(* SpecStore: the superadmin's session over the 'analises' table, the      *)
(* Storage bucket and the deletion requests, with calls that may fail.     *)
(***************************************************************************)
\* the dates of a form: entry, exit
StoreDatas == {<<0, 9>>, <<9, 9>>, <<9, 0>>}
StoreTelas == {"home", "calc_comparativa", "calc_simples", "relatorio_analises",
               "admin_delete_requests"}
\* the registration upload succeeds and the clock advances; the insert, the
\* pdf_path update and the final upload may fail
StoreIOs == {io \in IOs : io.upload_ok /\ io.decorrido = 1}

Superadmin == Usuarios[SUPERADMIN_USERNAME]

StoreInit ==
    /\ numpy_build \in NumpyBuilds
    /\ float_ties = "below"
    /\ UsersInit
    /\ args = <<>>
    /\ retS = <<>>
    /\ retC = <<>>
    /\ session_state = script_run(login_aceito(<<>>, SUPERADMIN_USERNAME, Superadmin),
                                  <<>>, <<>>, 0, <<>>, SemFalhas).ss
    /\ view = script_run(login_aceito(<<>>, SUPERADMIN_USERNAME, Superadmin),
                         <<>>, <<>>, 0, <<>>, SemFalhas).view
    /\ analises = <<>>
    /\ storage = <<>>
    /\ uuids = 0
    /\ delete_requests = <<>>
    /\ alias = {}
    /\ evento = Evento("", 0, 0)

StoreNext ==
    \/ \E destino \in StoreTelas, io \in StoreIOs : IrPara(destino, io)
    \/ \E d \in (IF Len(ss_get(session_state, "cenarios", <<>>)) < SessCenarios
                  THEN StoreDatas ELSE {}) :
           CalcularCenario("AAA1A11", d[1], d[2], 0, Corretiva)
    \/ \E io \in StoreIOs : CompararCenarios(io)
    \/ \E io \in StoreIOs : BaixarPDF(io)
    \/ \E d \in StoreDatas, io \in StoreIOs :
           CalcularSLA("AAA1A11", "Cliente A", RatInt(300000), d[1], d[2], 0, Corretiva, io)
    \/ LimparResultado
    \/ \E k \in (IF Len(delete_requests) < StoreRequests THEN 1..MaxAnalises ELSE {}),
          ok \in BOOLEAN : SolicitarExclusao(k, ok)
    \/ \E j \in 1..MaxRequests, delete_ok \in BOOLEAN, remove_ok \in BOOLEAN,
          review_ok \in BOOLEAN : AprovarExclusao(j, delete_ok, remove_ok, review_ok)

SpecStore == StoreInit /\ [][StoreNext]_vars

(***************************************************************************)
(* SpecRequests: the deletion requests of one registered analysis, from    *)
(* the login screen on: two users take turns in the browser session.       *)
(***************************************************************************)
ReqUsuarios == {SUPERADMIN_USERNAME, "joao", "maria"}
ReqTelas == {"home", "relatorio_analises", "historico_pessoal", "admin_delete_requests"}
\* the texts typed in "Motivo"
ReqNotes == {<<>>, <<" ">>, <<"m">>}

\* the table and the bucket after username registered one simple SLA result
ReqRegistrado(username) ==
    atualizar_pdf(registrar_analise(<<>>, <<>>, 1, username, "sla_mensal",
                                    [status |-> DentroDoPrazo], uuid4(1), SemFalhas),
                  "sla_mensal", username, SemFalhas)

ReqInit ==
    /\ numpy_build \in NumpyBuilds
    /\ float_ties = "below"
    /\ UsersInit
    /\ args = <<>>
    /\ retS = <<>>
    /\ retC = <<>>
    /\ session_state = script_run(<<>>, <<>>, <<>>, 0, <<>>, SemFalhas).ss
    /\ view = script_run(<<>>, <<>>, <<>>, 0, <<>>, SemFalhas).view
    /\ analises = ReqRegistrado("joao").analises
    /\ storage = ReqRegistrado("joao").storage
    /\ uuids = 2
    /\ delete_requests = <<>>
    /\ alias = {}
    /\ evento = Evento("", 0, 0)

ReqNext ==
    \/ \E username \in ReqUsuarios, valid \in BOOLEAN : Login(username, valid)
    \/ Logout
    \/ \E destino \in ReqTelas : IrPara(destino, SemFalhas)
    \/ \E k \in 1..MaxAnalises, ok \in BOOLEAN : SolicitarExclusao(k, ok)
    \/ \E k \in 1..MaxAnalises, ok \in BOOLEAN : SolicitarExclusaoPessoal(k, ok)
    \/ \E j \in 1..MaxRequests, delete_ok \in BOOLEAN, remove_ok \in BOOLEAN,
          review_ok \in BOOLEAN : AprovarExclusao(j, delete_ok, remove_ok, review_ok)
    \/ \E j \in 1..MaxRequests, notes \in ReqNotes, review_ok \in BOOLEAN :
           ReprovarExclusao(j, notes, review_ok)
    \/ \E request_id \in 1..(2 * MaxRequests), ok \in BOOLEAN :
           DispensarNotificacao(request_id, ok)

SpecRequests == ReqInit /\ [][ReqNext]_vars

(***************************************************************************)
(* SpecRegistrar: registrar_analise called as the calculators call it, with *)
(* an upload and an insert that may fail.                                   *)
(***************************************************************************)
RegUsuarios == {"admin", "maria"}
RegTipos == {"sla_mensal", "cenarios"}
\* the calls registrar_analise itself makes: the upload and the insert
RegIOs == {io \in IOs : io.update_ok /\ io.upload_final_ok /\ io.decorrido = 1}

\* the caller draws the provisional protocol (one identifier), prints it in
\* the PDF and calls registrar_analise; the protocol returned is displayed
Registrar(username, tipo, io) ==
    /\ Len(analises) < MaxAnalises
    /\ uuids + 2 <= MaxUuids
    /\ \E reg \in {registrar_analise(analises, storage, uuids + 1, username, tipo,
                                      [status |-> DentroDoPrazo], uuid4(uuids + 1), io)} :
           /\ analises' = reg.analises
           /\ storage' = reg.storage
           /\ uuids' = reg.uuids
           /\ view' = [BlankView EXCEPT !.screen = "registrar", !.protocolo = reg.id]
    /\ args' = [username |-> username, tipo |-> tipo, io |-> io]
    /\ evento' = Evento("registrar", 0, 0)
    /\ UNCHANGED <<users, agora, tokens, redefinicoes, numpy_build, float_ties, retS, retC, session_state, delete_requests, alias>>

RegInit ==
    /\ numpy_build \in NumpyBuilds
    /\ float_ties = "below"
    /\ UsersInit
    /\ args = <<>>
    /\ retS = <<>>
    /\ retC = <<>>
    /\ session_state = LoggedIn("home")
    /\ view = BlankView
    /\ analises = <<>>
    /\ storage = <<>>
    /\ uuids = 0
    /\ delete_requests = <<>>
    /\ alias = {}
    /\ evento = Evento("", 0, 0)

RegNext == \E username \in RegUsuarios, tipo \in RegTipos, io \in RegIOs :
               Registrar(username, tipo, io)

SpecRegistrar == RegInit /\ [][RegNext]_vars

(***************************************************************************)
(* SpecReset: the forgot_password and reset_password screens of a browser  *)
(* session that is not logged in, and the clock.                           *)
(***************************************************************************)
RstTokens == {<<>>, <<" ">>} \cup {token_urlsafe(k) : k \in 1..MaxTokens}
RstSenhas ==
    {<<p, p>> : p \in {SenhaNova, SenhaComUsuario, SenhaCurta}}
        \cup {<<SenhaNova, SenhaCurta>>, <<SenhaNova, <<>>>>}
RstEmails == {EmailJoao, <<" ">> \o EmailAdmin, EmailMaria, <<"x", "@", "v">>}
RstPassos == {1800, 3601}

\* what the reset screens leave alone
foraDoReset == <<numpy_build, float_ties, retS, retC, analises, storage, uuids, delete_requests, alias>>

\* a new browser session: session_state holds only the default screen
NovaSessao ==
    /\ session_state # [k \in {"tela"} |-> "login"]
    /\ session_state' = [k \in {"tela"} |-> "login"]
    /\ view' = [BlankView EXCEPT !.screen = "login"]
    /\ evento' = Evento("nova_sessao", 0, 0)
    /\ UNCHANGED <<users, agora, tokens, redefinicoes, args>>
    /\ UNCHANGED foraDoReset

\* the page opened with "?reset_token=token"
AbrirLink(token) ==
    /\ ~ss_get(session_state, "ignore_reset_qp", FALSE)
    /\ session_state' = ss_set(ss_set(session_state, "incoming_reset_token", token),
                               "tela", "reset_password")
    /\ view' = [BlankView EXCEPT !.screen = "reset_password"]
    /\ evento' = Evento("abrir_link", 0, 0)
    /\ UNCHANGED <<users, agora, tokens, redefinicoes, args>>
    /\ UNCHANGED foraDoReset

\* "Reset Password" on the login screen
IrParaForgot ==
    /\ session_state["tela"] = "login"
    /\ session_state' = ss_set(session_state, "tela", "forgot_password")
    /\ view' = [BlankView EXCEPT !.screen = "forgot_password"]
    /\ evento' = Evento("ir_para_forgot", 0, 0)
    /\ UNCHANGED <<users, agora, tokens, redefinicoes, args>>
    /\ UNCHANGED foraDoReset

\* "Voltar ao login" on the forgot_password and reset_password screens
VoltarAoLogin ==
    /\ session_state["tela"] \in {"forgot_password", "reset_password"}
    /\ session_state' =
           IF session_state["tela"] = "reset_password"
           THEN ss_set(ss_set(ss_set(session_state, "ignore_reset_qp", TRUE),
                              "incoming_reset_token", <<>>),
                       "tela", "login")
           ELSE ss_set(session_state, "tela", "login")
    /\ view' = [BlankView EXCEPT !.screen = "login"]
    /\ evento' = Evento("voltar_ao_login", 0, 0)
    /\ UNCHANGED <<users, agora, tokens, redefinicoes, args>>
    /\ UNCHANGED foraDoReset

\* "Enviar link" on the forgot_password screen with an e-mail that is not blank
EnviarLink(email, save_ok) ==
    /\ session_state["tela"] = "forgot_password"
    /\ str_strip(email) # <<>>
    /\ tokens < MaxTokens
    /\ \E r \in {forgot_password_enviar(users, email, token_urlsafe(tokens + 1), agora, save_ok)} :
           /\ users' = r.users
           /\ tokens' = IF r.drawn THEN tokens + 1 ELSE tokens
           /\ view' = [BlankView EXCEPT !.screen = "forgot_password", !.erro = r.erro]
    /\ evento' = Evento("enviar_link", 0, 0)
    /\ UNCHANGED <<agora, redefinicoes, args, session_state>>
    /\ UNCHANGED foraDoReset

\* "Redefinir senha" on the reset_password screen
RedefinirSenha(token, new_pass, new_pass2, save_ok) ==
    /\ session_state["tela"] = "reset_password"
    /\ Len(redefinicoes) <= MaxTokens
    /\ \E r \in {reset_password_confirmar(users, token, new_pass, new_pass2, agora, save_ok)} :
           /\ users' = r.users
           /\ redefinicoes' = IF r.changed THEN Append(redefinicoes, token) ELSE redefinicoes
           /\ view' = [BlankView EXCEPT !.screen = "reset_password", !.erro = r.erro]
    /\ args' = [token |-> token]
    /\ evento' = Evento("redefinir_senha", 0, 0)
    /\ UNCHANGED <<agora, tokens, session_state>>
    /\ UNCHANGED foraDoReset

\* time passes
Tick(d) ==
    /\ agora + d <= MaxAgora
    /\ agora' = agora + d
    /\ UNCHANGED <<users, tokens, redefinicoes, args, session_state, view, evento>>
    /\ UNCHANGED foraDoReset

RstInit ==
    /\ numpy_build = "swap"
    /\ float_ties = "below"
    /\ UsersInit
    /\ args = <<>>
    /\ retS = <<>>
    /\ retC = <<>>
    /\ session_state = [k \in {"tela"} |-> "login"]
    /\ view = [BlankView EXCEPT !.screen = "login"]
    /\ analises = <<>>
    /\ storage = <<>>
    /\ uuids = 0
    /\ delete_requests = <<>>
    /\ alias = {}
    /\ evento = Evento("", 0, 0)

RstNext ==
    \/ NovaSessao
    \/ \E k \in 1..MaxTokens : AbrirLink(token_urlsafe(k))
    \/ IrParaForgot
    \/ VoltarAoLogin
    \/ \E email \in RstEmails, save_ok \in BOOLEAN : EnviarLink(email, save_ok)
    \/ \E token \in RstTokens, senhas \in RstSenhas, save_ok \in BOOLEAN :
           RedefinirSenha(token, senhas[1], senhas[2], save_ok)
    \/ \E d \in RstPassos : Tick(d)

SpecReset == RstInit /\ [][RstNext]_vars

(***************************************************************************)
(* SpecRank: the selection of the result screen and the savings of the     *)
(* report, applied to a list of scenarios and to a permutation of it.      *)
(***************************************************************************)
\* the scenarios the form can append, with and without one part
RankCenarios(build) ==
    {calcular_cenario_comparativo(BaseClientes["AAA1A11"].cliente, "AAA1A11", 0, 9, 0,
                                  servico, pecas,
                                  BaseClientes["AAA1A11"].mensalidade, build).ret :
         servico \in CmpServicos, pecas \in PecasListas(1)}

RankListas(build) == UNION {[1..n -> RankCenarios(build)] : n \in 1..MaxCenarios}

Bijections(n) == {p \in [1..n -> 1..n] : \A i, j \in 1..n : p[i] = p[j] => i = j}

Permute(lista, p) == [i \in 1..Len(lista) |-> lista[p[i]]]

RankArgs(build) ==
    UNION {{[cenarios |-> lista, permutados |-> Permute(lista, p)] :
                p \in Bijections(Len(lista))} : lista \in RankListas(build)}

\* the row registrar_analise inserts for the comparison of lista
rank_row(lista) ==
    registrar_analise(<<>>, <<>>, 1, "admin", "cenarios",
                      [cenarios |-> lista,
                       melhor |-> lista[comparativa_idx_min(lista) + 1]],
                      uuid4(1), SemFalhas).analises[1]

\* idx_min and melhor of the result screen and the column "Economia" of the
\* report, for the list (first entry) and for its permutation (second entry)
Rank ==
    /\ view.screen = ""
    /\ view' = [BlankView EXCEPT
                   !.screen = "ranking",
                   !.idx_min = <<comparativa_idx_min(args.cenarios),
                                 comparativa_idx_min(args.permutados)>>,
                   !.melhor = <<args.cenarios[comparativa_idx_min(args.cenarios) + 1],
                                args.permutados[comparativa_idx_min(args.permutados) + 1]>>,
                   !.economia = <<calcular_economia(rank_row(args.cenarios)),
                                  calcular_economia(rank_row(args.permutados))>>]
    /\ UNCHANGED <<users, agora, tokens, redefinicoes, numpy_build, float_ties, args, retS, retC, session_state, analises, storage,
                   uuids, delete_requests, alias, evento>>

RankInit ==
    /\ numpy_build \in NumpyBuilds
    /\ float_ties \in FloatTies
    /\ UsersInit
    /\ args \in RankArgs(numpy_build)
    /\ retS = <<>>
    /\ retC = <<>>
    /\ session_state = LoggedIn("calc_comparativa")
    /\ view = BlankView
    /\ analises = <<>>
    /\ storage = <<>>
    /\ uuids = 0
    /\ delete_requests = <<>>
    /\ alias = {}
    /\ evento = Evento("", 0, 0)

RankNext == Rank

SpecRank == RankInit /\ [][RankNext]_vars

(***************************************************************************)
(* Properties of the evaluators (specification SpecEval).                  *)
(***************************************************************************)
DoneS == retS # <<>>
DoneC == retC # <<>>
DoneBoth == DoneS /\ DoneC

\* the amount in cents a currency string shows: its digits, read as one number
DenotedCents(str) ==
    (IF \E i \in 1..Len(str) : str[i] = "-" THEN -1 ELSE 1)
        * StrToNat(SelectSeq(str, IsDigit))

\* the number of Monday-Friday dates in the closed range [a, b]
WeekdaysInClosedRange(a, b) == Cardinality({d \in a..b : d % 7 \in 0..4})

\* C1 (as stated): for every entry and exit date the raw business-day count
\* of both evaluators is the number of Monday-Friday dates in the closed
\* range [entry, exit].
C1_RawIsClosedRangeCount ==
    /\ DoneS => retS[1].dias0 = WeekdaysInClosedRange(args.entrada, args.saida)
    /\ DoneC => retC[1].dias = WeekdaysInClosedRange(args.entrada, args.saida)

\* C1 (amended): whenever exit + 1 day >= entry the raw business-day count of
\* both evaluators is the number of Monday-Friday dates in [entry, exit] (so
\* 1 or 0 when entry = exit, by weekday); for an earlier exit date it is a
\* count that is zero or negative.
C1_RawBusinessDays ==
    LET closed == WeekdaysInClosedRange(args.entrada, args.saida)
        Right(raw) ==
            /\ args.saida + 1 >= args.entrada => raw = closed
            /\ args.saida + 1 < args.entrada => raw <= 0
            /\ args.saida = args.entrada =>
                   raw = IF args.entrada % 7 \in {5, 6} THEN 0 ELSE 1
    IN  /\ DoneS => Right(retS[1].dias0)
        /\ DoneC => Right(retC[1].dias)

C1_Witness ==
    /\ DoneBoth
    /\ args.entrada = 4 /\ args.saida = 7
    /\ retS[1].dias0 = 2 /\ retC[1].dias = 2

\* C2: businessDays = max(raw - holidays, 0) in both evaluators: never
\* negative, and exactly 0 whenever holidays >= raw.
C2_HolidaysClamped ==
    LET Right(raw, bd) ==
            /\ bd >= 0
            /\ args.feriados >= raw => bd = 0
            /\ args.feriados < raw => bd = raw - args.feriados
    IN  /\ DoneS => Right(retS[1].dias0, retS[1].dias)
        /\ DoneC => /\ Right(retC[1].dias, retC[1].dias_uteis)
                    /\ retC[1].ret.DiasUteis = retC[1].dias_uteis

C2_Witness ==
    /\ DoneBoth
    /\ retS[1].dias0 = 2 /\ args.feriados = 3
    /\ retS[1].dias = 0 /\ retC[1].ret.DiasUteis = 0

\* C3: the thresholds are Preventive 2, Corrective 3, Preventive+Corrective 5
\* and Engine 15 business days, any other service type has threshold 0, and
\* an unrecognized service type with 1 business day has 1 excess day.
ThresholdOf(servico) ==
    CASE servico = Preventiva -> 2
      [] servico = Corretiva -> 3
      [] servico = PrevCorr -> 5
      [] servico = Motor -> 15
      [] OTHER -> 0

C3_Thresholds ==
    /\ DoneS => retS[1].prazo_sla = ThresholdOf(args.servico)
    /\ DoneC => /\ retC[1].sla_dias = ThresholdOf(args.servico)
                /\ retC[1].ret.SLADias = ThresholdOf(args.servico)
                /\ (args.servico \notin Servicos /\ retC[1].dias_uteis = 1)
                       => retC[1].ret.Excedente = 1
    /\ DoneS => ((args.servico \notin Servicos /\ retS[1].dias = 1)
                       => retS[1].dias_excedente = 1)

C3_Witness ==
    /\ DoneBoth
    /\ args.servico = Outro
    /\ retC[1].dias_uteis = 1 /\ retC[1].ret.Excedente = 1
    /\ retS[1].dias_excedente = 1

\* C4: excessDays is businessDays - thresholdDays when businessDays exceeds
\* the threshold and 0 otherwise, in both evaluators.
C4_ExcessDays ==
    LET Right(bd, th, ex) ==
            /\ bd > th => ex = bd - th
            /\ bd <= th => ex = 0
    IN  /\ DoneS => Right(retS[1].dias, retS[1].prazo_sla, retS[1].dias_excedente)
        /\ DoneC => /\ Right(retC[1].dias_uteis, retC[1].sla_dias, retC[1].excedente)
                    /\ retC[1].ret.Excedente = retC[1].excedente

C4_Witness ==
    /\ DoneBoth
    /\ retC[1].dias_uteis = 8 /\ retC[1].sla_dias = 3 /\ retC[1].excedente = 5
    /\ retS[1].dias_excedente = 5

\* C5: the discount is monthlyFee / 30 times excessDays when excessDays > 0
\* and 0 otherwise, whatever the dates; a fee of 3000.00 over Monday
\* 2024-01-01 .. Wednesday 2024-01-10 with threshold 3 gives 500.00, and
\* 300.00 with 2 holidays.
C5_Discount ==
    LET Right(ex, d) ==
            /\ ex > 0 => d = Rat(args.mensalidade.n * ex, args.mensalidade.d * 30)
            /\ ex <= 0 => d = Zero
        Example ==
            /\ args.entrada = 0 /\ args.saida = 9 /\ args.servico = Corretiva
            /\ args.mensalidade = RatInt(300000)
        ExampleRight(d) ==
            /\ (Example /\ args.feriados = 0) => d = RatInt(50000)
            /\ (Example /\ args.feriados = 2) => d = RatInt(30000)
    IN  /\ DoneS => /\ Right(retS[1].dias_excedente, retS[1].desconto)
                    /\ ExampleRight(retS[1].desconto)
        /\ DoneC => /\ Right(retC[1].excedente, retC[1].desconto)
                    /\ ExampleRight(retC[1].desconto)

C5_Witness ==
    /\ DoneBoth
    /\ args.entrada = 0 /\ args.saida = 9 /\ args.servico = Corretiva
    /\ args.mensalidade = RatInt(300000) /\ args.feriados = 2
    /\ retC[1].desconto = RatInt(30000) /\ retS[1].desconto = RatInt(30000)

\* C6: calcular_sla_simples returns "Dentro do prazo" iff businessDays <=
\* thresholdDays and "Fora do prazo" otherwise, and "Fora do prazo" exactly
\* when excessDays > 0.
C6_Status ==
    DoneS =>
        /\ retS[1].status \in {DentroDoPrazo, ForaDoPrazo}
        /\ retS[1].status = DentroDoPrazo <=> retS[1].dias <= retS[1].prazo_sla
        /\ retS[1].status = ForaDoPrazo <=> retS[1].dias > retS[1].prazo_sla
        /\ retS[1].status = ForaDoPrazo <=> retS[1].dias_excedente > 0

C6_Witness ==
    /\ DoneS
    /\ retS[1].dias = retS[1].prazo_sla + 1
    /\ retS[1].status = ForaDoPrazo

\* C7: with a monthly fee >= 0 the discount of either evaluator is >= 0, and
\* it is exactly 0 whenever excessDays is 0.
C7_DiscountNonNegative ==
    LET Right(ex, d) ==
            /\ RatLeq(Zero, args.mensalidade) => RatLeq(Zero, d)
            /\ ex = 0 => d = Zero
    IN  /\ DoneS => Right(retS[1].dias_excedente, retS[1].desconto)
        /\ DoneC => Right(retC[1].excedente, retC[1].desconto)

C7_Witness ==
    /\ DoneBoth
    /\ RatLess(Zero, args.mensalidade)
    /\ retS[1].dias > 0 /\ retS[1].dias < retS[1].prazo_sla
    /\ retS[1].desconto = Zero /\ retC[1].desconto = Zero

\* C8: the evaluators raise for no input (zero fee, zero threshold, more
\* holidays than raw days, inverted or empty range), and for an exit date
\* before the entry date they return 0 business days, 0 excess days, a zero
\* discount and "Dentro do prazo".
C8_NoErrorAndInvertedRange ==
    /\ DoneS => /\ ~retS[1].raised
                /\ args.saida < args.entrada =>
                       /\ retS[1].dias = 0 /\ retS[1].dias_excedente = 0
                       /\ retS[1].desconto = Zero
                       /\ retS[1].status = DentroDoPrazo
    /\ DoneC => /\ ~retC[1].raised
                /\ args.saida < args.entrada =>
                       /\ retC[1].ret.DiasUteis = 0 /\ retC[1].ret.Excedente = 0
                       /\ retC[1].desconto = Zero
                       /\ retC[1].ret.Desconto = formatar_moeda(Zero)

C8_Witness ==
    /\ DoneBoth
    /\ args.saida < args.entrada /\ args.servico = Outro
    /\ args.mensalidade = Zero
    /\ retS[1].dias0 < 0 /\ retC[1].dias < 0
    /\ retS[1].dias = 0 /\ retC[1].ret.DiasUteis = 0

\* the sum of the values of a parts list, 0 for the empty list
RECURSIVE SumOfParts(_)
SumOfParts(pecas) ==
    IF pecas = <<>> THEN 0 ELSE Head(pecas).valor.n + SumOfParts(Tail(pecas))

\* C12: every scenario produced by calcular_cenario_comparativo has
\* finalTotal = (monthlyFee - discount) + the sum of the values of its parts
\* list, an empty parts list contributing 0; the "Total Final (R$)" string of
\* the scenario shows that amount to the nearest cent.
C12_FinalTotal ==
    DoneC =>
        LET fee == args.mensalidade
            d == retC[1].desconto
            parts == SumOfParts(retC[1].ret.DetalhePecas)
            \* (fee - d) + parts as one fraction num / den of a cent
            num == (fee.n * d.d - d.n * fee.d) + parts * fee.d * d.d
            den == fee.d * d.d
            shown == DenotedCents(retC[1].ret.TotalFinal)
        IN  /\ retC[1].ret.DetalhePecas = args.pecas
            /\ retC[1].total_final.n * den = num * retC[1].total_final.d
            /\ 2 * Abs(shown * den - num) <= den
            /\ args.pecas = <<>> =>
                   /\ retC[1].total_pecas = Zero
                   /\ retC[1].total_final = RatSub(fee, d)

C12_Witness ==
    /\ DoneC
    /\ args.mensalidade = RatInt(300000) /\ args.pecas # <<>>
    /\ retC[1].desconto = RatInt(50000)
    /\ retC[1].total_pecas = RatInt(15000)
    /\ retC[1].total_final = RatInt(265000)
    /\ retC[1].ret.TotalFinal = <<"R", "$", "2", ".", "6", "5", "0", ",", "0", "0">>

\* x rounded to a whole number of cents, a value halfway going up (x >= 0)
HalfUpCents(x) == (2 * x.n + x.d) \div (2 * x.d)

\* C19: for a form-valid call (entry before exit, fee above zero) the
\* "Desconto" of a scenario shows fee * excess / 30 rounded half-up to the
\* cent, its "Total Final (R$)" shows the total rounded half-up, and the
\* desconto the calc_simples screen stores in resultado_sla is that same
\* rounded discount.
C19_DiscountRoundedHalfUp ==
    (args.entrada < args.saida /\ RatLess(Zero, args.mensalidade)) =>
        /\ DoneC =>
               /\ DenotedCents(retC[1].ret.Desconto) =
                      HalfUpCents(RatDivInt(RatMulInt(args.mensalidade,
                                                      retC[1].excedente), 30))
               /\ DenotedCents(retC[1].ret.TotalFinal) =
                      HalfUpCents(retC[1].total_final)
        /\ DoneS =>
               simples_resultado_sla("cliente", "ABC1D23", args.servico, args.entrada,
                                     args.saida, args.feriados, args.mensalidade,
                                     numpy_build).desconto =
                   RatInt(HalfUpCents(RatDivInt(RatMulInt(args.mensalidade,
                                                          retS[1].dias_excedente), 30)))

(***************************************************************************)
(* Properties of the comparison (SpecCompare) and of the report            *)
(* (SpecReport).                                                           *)
(***************************************************************************)
FinalTotal(lista, j) == DenotedCents(lista[j].TotalFinal)

\* position i holds the first minimum finalTotal of the list
IsFirstMinimum(lista, i) ==
    /\ i \in 1..Len(lista)
    /\ \A j \in 1..Len(lista) : FinalTotal(lista, i) <= FinalTotal(lista, j)
    /\ \A j \in 1..(i - 1) : FinalTotal(lista, j) > FinalTotal(lista, i)

\* C9: the best scenario selected by the compare step is an element with the
\* minimum finalTotal of the sequence, the first such element when several
\* share the minimum; it is the one displayed and the one registered.
C9_BestIsFirstMinimum ==
    /\ view.screen = "resultado" =>
           /\ IsFirstMinimum(session_state["cenarios"], view.idx_min[1] + 1)
           /\ view.melhor[1] = session_state["cenarios"][view.idx_min[1] + 1]
    /\ \A k \in 1..Len(analises) :
           analises[k].tipo = "cenarios" =>
               LET dados == json_loads(analises[k].dados_json)
               IN  \E i \in 1..Len(dados.cenarios) :
                       /\ IsFirstMinimum(dados.cenarios, i)
                       /\ dados.melhor = dados.cenarios[i]

C9_Witness ==
    /\ view.screen = "resultado"
    /\ Len(session_state["cenarios"]) = 3
    /\ view.idx_min = <<1>>
    /\ FinalTotal(session_state["cenarios"], 1) = 350000
    /\ FinalTotal(session_state["cenarios"], 2) = 300000
    /\ FinalTotal(session_state["cenarios"], 3) = 300000
    /\ session_state["cenarios"][2] # session_state["cenarios"][3]
    /\ Len(analises) = 1

\* C10: the savings of a row is max(finalTotal) - min(finalTotal) over its
\* scenarios, reported only for a comparison row with at least 2 scenarios
\* and a strictly positive difference; otherwise it is the empty string, so
\* a reported value is never zero.
C10_Savings ==
    view.screen = "relatorio" =>
        \A k \in 1..Len(analises) :
            LET row == analises[k]
                lista == json_loads(row.dados_json).cenarios
                totals == {FinalTotal(lista, j) : j \in 1..Len(lista)}
                maior == CHOOSE t \in totals : \A u \in totals : u <= t
                menor == CHOOSE t \in totals : \A u \in totals : t <= u
                economia == view.economia[k]
            IN  /\ IF row.tipo = "cenarios" /\ Len(lista) >= 2 /\ maior - menor > 0
                   THEN economia # <<>> /\ DenotedCents(economia) = maior - menor
                   ELSE economia = <<>>
                /\ economia # <<>> => DenotedCents(economia) > 0

C10_Witness ==
    /\ view.screen = "relatorio"
    /\ analises[1].tipo = "cenarios"
    /\ Len(json_loads(analises[1].dados_json).cenarios) = 3
    /\ view.economia[1] = <<"R", "$", "1", ".", "0", "0", "0", ",", "0", "0">>

(***************************************************************************)
(* Properties of the ranking under permutation (SpecRank).                 *)
(***************************************************************************)
\* C11: for every scenario sequence and every permutation of it, the
\* finalTotal of the best scenario selected and the savings value are the
\* same for the sequence and for the permutation.
C11_RankPermutationInvariant ==
    view.screen = "ranking" =>
        /\ DenotedCents(view.melhor[1].TotalFinal) = DenotedCents(view.melhor[2].TotalFinal)
        /\ view.economia[1] = view.economia[2]

\* a permutation that moves the tie: two different scenarios share the
\* minimum, each order selects another one of them, and savings are reported
C11_Witness ==
    /\ view.screen = "ranking"
    /\ Len(args.cenarios) = 3
    /\ args.cenarios # args.permutados
    /\ view.melhor[1] # view.melhor[2]
    /\ DenotedCents(view.melhor[1].TotalFinal) = 300000
    /\ view.economia[1] = <<"R", "$", "5", "0", "0", ",", "0", "0">>

(***************************************************************************)
(* Properties of the session (SpecSession).                                *)
(***************************************************************************)
\* the scenario list of the session, empty when the key is absent
Cenarios == ss_get(session_state, "cenarios", <<>>)

Mostrar == ss_get(session_state, "mostrar_comparativo", FALSE)

\* C13: in every reachable session state mostrar_comparativo = True implies
\* that the scenario list holds at least 2 scenarios, and the result branch
\* (the best-scenario selection) has only run on such a list, after any
\* sequence of submissions, part edits, compare, reset, navigation, logout
\* and login.
C13_CompareNeedsTwo ==
    /\ Mostrar => ("cenarios" \in DOMAIN session_state /\ Len(Cenarios) >= 2)
    /\ view.screen = "resultado" => (Mostrar /\ Len(Cenarios) >= 2)
    /\ \A k \in 1..Len(analises) :
           analises[k].tipo = "cenarios" =>
               Len(json_loads(analises[k].dados_json).cenarios) >= 2

\* the comparison shown again after leaving the screen and coming back
C13_Witness ==
    /\ view.screen = "resultado"
    /\ Mostrar /\ Len(Cenarios) = 2
    /\ evento.nome = "ir_para"
    /\ Len(analises) = 2

\* C14 (as stated): no 'cenarios' record is inserted while scenarios are
\* being accumulated, and between one compare action and the next reset
\* exactly one 'cenarios' record, holding all accumulated scenarios and the
\* best one, is inserted, however many times the result screen is rendered:
\* a 'cenarios' record is inserted only by the step of the compare action.
C14_SingleRecordPerComparison ==
    [][Len(analises') > Len(analises) =>
           LET row == analises'[Len(analises')]
               dados == json_loads(row.dados_json)
           IN  row.tipo = "cenarios" =>
                   /\ evento'.nome = "comparar"
                   /\ Len(analises') = Len(analises) + 1
                   /\ dados.cenarios = ss_get(session_state', "cenarios", <<>>)
                   /\ \E i \in 1..Len(dados.cenarios) : dados.melhor = dados.cenarios[i]]_vars

\* C17: a scenario of the session list keeps every field, "Detalhe Pecas"
\* and "Total Final (R$)" included, in every step that does not discard the
\* list (adding parts, removing parts, later submissions, comparing,
\* navigating); an accepted submission appends one scenario whose parts are
\* the parts list as it was, and a rejected one leaves the parts list alone;
\* when a handler has returned no scenario holds the list object of the
\* session's parts list.
C17_AppendedScenariosFrozen ==
    /\ [](alias = {})
    /\ [][/\ evento'.nome \notin {"limpar", "reiniciar", "logout"} =>
              /\ Len(ss_get(session_state', "cenarios", <<>>)) >= Len(Cenarios)
              /\ \A i \in 1..Len(Cenarios) :
                     ss_get(session_state', "cenarios", <<>>)[i] = Cenarios[i]
          /\ (evento'.nome = "calcular_cenario" /\ retC' # <<>>) =>
              /\ Len(session_state'["cenarios"]) = Len(Cenarios) + 1
              /\ session_state'["cenarios"][Len(Cenarios) + 1] = retC'[1].ret
              /\ retC'[1].ret.DetalhePecas = session_state["pecas_atuais"]
          /\ (evento'.nome = "calcular_cenario" /\ retC' = <<>>) =>
              session_state'["pecas_atuais"] = session_state["pecas_atuais"]]_vars

\* a part was added after a scenario with one part had been appended
C17_Witness ==
    /\ evento.nome = "adicionar_peca"
    /\ Len(Cenarios) = 1
    /\ Len(Cenarios[1].DetalhePecas) = 1
    /\ Len(ss_get(session_state, "pecas_atuais", <<>>)) = 1

\* the session holds no scenario, no accumulated part and no comparison
Descartado ==
    /\ Cenarios = <<>>
    /\ ss_get(session_state, "pecas_atuais", <<>>) = <<>>
    /\ ~Mostrar

\* C20: right after "Limpar Calculo", "Reiniciar Comparacao" and logout the
\* session holds no scenario, no accumulated part and mostrar_comparativo is
\* not set; from such a session, until a part is added or a scenario is
\* submitted, the list stays empty and every rendering of the comparison
\* screen is the form of "Cenario 1"; the form always numbers the next
\* scenario after the ones in the list.
C20_DiscardedOnResetAndLogout ==
    /\ [](evento.nome \in {"limpar", "reiniciar", "logout"} => Descartado)
    /\ [](view.screen = "formulario" => view.numero = Len(Cenarios) + 1)
    /\ [][(Descartado /\ evento'.nome \notin {"calcular_cenario", "adicionar_peca"}) =>
              /\ ss_get(session_state', "cenarios", <<>>) = <<>>
              /\ ss_get(session_state', "pecas_atuais", <<>>) = <<>>
              /\ ~ss_get(session_state', "mostrar_comparativo", FALSE)
              /\ session_state'["tela"] = "calc_comparativa" =>
                     (view'.screen = "formulario" /\ view'.numero = 1)]_vars

\* the comparison screen is opened again after a comparison was registered
\* and discarded: it shows the form of "Cenario 1"
C20_Witness ==
    /\ evento.nome = "ir_para"
    /\ session_state["tela"] = "calc_comparativa"
    /\ Len(analises) >= 1
    /\ view.screen = "formulario"
    /\ view.numero = 1

\* the accumulated parts of the session
Pecas == ss_get(session_state, "pecas_atuais", <<>>)

\* C21: in a step that is not a reset ("Limpar Calculo", "Reiniciar
\* Comparacao") or a logout: while mostrar_comparativo is set the scenario
\* list and the parts list do not change; while it is not set the scenario
\* list either stays as it is or grows by the one scenario an accepted
\* submission computed, appended at the end, and after an accepted
\* submission the parts list is empty.
C21_FinalizedSetCannotGrow ==
    [][evento'.nome \notin {"limpar", "reiniciar", "logout"} =>
           /\ Mostrar =>
                  /\ ss_get(session_state', "cenarios", <<>>) = Cenarios
                  /\ ss_get(session_state', "pecas_atuais", <<>>) = Pecas
           /\ ~Mostrar =>
                  \/ ss_get(session_state', "cenarios", <<>>) = Cenarios
                  \/ /\ evento'.nome = "calcular_cenario"
                     /\ view'.erro = ""
                     /\ retC' # <<>>
                     /\ session_state'["cenarios"] = Append(Cenarios, retC'[1].ret)
           /\ (evento'.nome = "calcular_cenario" /\ retC' # <<>>) =>
                  /\ session_state'["cenarios"] = Append(Cenarios, retC'[1].ret)
                  /\ session_state'["pecas_atuais"] = <<>>]_vars

\* two scenarios, the second one with a part, were compared
C21_Witness ==
    /\ evento.nome = "comparar"
    /\ Mostrar
    /\ Len(Cenarios) = 2
    /\ Len(Cenarios[2].DetalhePecas) = 1
    /\ Pecas = <<>>

\* C22: in the step that processes a logout every "ia_" key and
\* user_notifications keep their values, every other key of the session is
\* removed (the script then sets tela and __do_logout again), and the
\* screen is the login screen.
C22_LogoutKeepsIaAndNotifications ==
    [][evento'.nome = "logout" =>
           /\ \A k \in (IaKeys \cup {"user_notifications"}) \cap DOMAIN session_state :
                  k \in DOMAIN session_state' /\ session_state'[k] = session_state[k]
           /\ DOMAIN session_state' \subseteq
                  ((IaKeys \cup {"user_notifications"}) \cap DOMAIN session_state)
                      \cup {"tela", "__do_logout"}
           /\ session_state'["tela"] = "login"
           /\ view'.screen = "login"]_vars

(***************************************************************************)
(* Properties of the analyses table and the bucket (SpecStore).            *)
(***************************************************************************)
\* the fields of a row that hold what was computed and by whom
Figures(row) ==
    [id |-> row.id, username |-> row.username, tipo |-> row.tipo,
     data_hora |-> row.data_hora, dados_json |-> row.dados_json]

\* whether the row holds what the session that inserted it computed
Inserido(row, ss) ==
    /\ row.username = ss_get(ss, "username", "")
    /\ row.tipo = "cenarios" => json_loads(row.dados_json).cenarios = ss["cenarios"]
    /\ row.tipo = "sla_mensal" =>
           \A k \in DOMAIN json_loads(row.dados_json) :
               json_loads(row.dados_json)[k] = ss["resultado_sla"][k]

\* C15: a row of 'analises' keeps its id, username, tipo, data_hora and
\* dados_json in every step (only its pdf_path may change); a row leaves
\* the table only in the step that approves a pending deletion request
\* naming it; and a row inserted in a step, pdf_path update included, holds
\* the user and the figures of the session that inserted it.
C15_RecordsImmutable ==
    [][/\ \A j \in 1..Len(analises') :
           (\A i \in 1..Len(analises) : analises[i].id # analises'[j].id) =>
               Inserido(analises'[j], session_state')
       /\ \A i \in 1..Len(analises) :
          /\ \A j \in 1..Len(analises') :
                 analises'[j].id = analises[i].id =>
                     Figures(analises'[j]) = Figures(analises[i])
          /\ (\A j \in 1..Len(analises') : analises'[j].id # analises[i].id) =>
                 /\ evento'.nome = "aprovar_exclusao"
                 /\ \E q \in 1..Len(delete_requests) :
                        /\ delete_requests[q].analise_id = analises[i].id
                        /\ delete_requests[q].status = "pendente"]_vars

\* one row was removed by an approved request, the other one had its
\* pdf_path updated after the insert
C15_Witness ==
    /\ evento.nome = "aprovar_exclusao"
    /\ Len(analises) = 1
    /\ analises[1].pdf_path.stamp # analises[1].data_hora
    /\ \E q \in 1..Len(delete_requests) :
           /\ delete_requests[q].status = "aprovado"
           /\ delete_requests[q].analise_id # analises[1].id
\* the scenarios of a 'cenarios' row
RowCenarios(row) == json_loads(row.dados_json).cenarios

\* C16: a submission of either form whose exit date is not after its entry
\* date shows an error, calls no evaluator, appends no scenario, leaves
\* resultado_sla and the 'analises' table as they were; every scenario of
\* the session and of a stored comparison has its entry date before its exit
\* date, and a simple SLA row is only inserted by a submission with the
\* entry date before the exit date.
C16_InvalidDatesRejected ==
    /\ [](\A i \in 1..Len(Cenarios) : Cenarios[i].DataEntrada < Cenarios[i].DataSaida)
    /\ [](\A r \in 1..Len(analises) :
              analises[r].tipo = "cenarios" =>
                  \A i \in 1..Len(RowCenarios(analises[r])) :
                      RowCenarios(analises[r])[i].DataEntrada
                          < RowCenarios(analises[r])[i].DataSaida)
    /\ [][(evento'.nome \in {"calcular_cenario", "calcular_sla"}
            /\ evento'.entrada >= evento'.saida) =>
               /\ view'.erro # ""
               /\ retS' = <<>>
               /\ retC' = <<>>
               /\ ss_get(session_state', "cenarios", <<>>) = Cenarios
               /\ ("resultado_sla" \in DOMAIN session_state')
                      = ("resultado_sla" \in DOMAIN session_state)
               /\ "resultado_sla" \in DOMAIN session_state =>
                      session_state'["resultado_sla"] = session_state["resultado_sla"]
               /\ analises' = analises]_vars
    /\ [][\A j \in 1..Len(analises') :
              (/\ analises'[j].tipo = "sla_mensal"
               /\ \A i \in 1..Len(analises) : analises[i].id # analises'[j].id) =>
                  /\ evento'.nome = "calcular_sla"
                  /\ evento'.entrada < evento'.saida]_vars

\* "Calcular SLA" was clicked with the exit date before the entry date
\* while the session held the result of an earlier, registered evaluation
C16_Witness ==
    /\ evento.nome = "calcular_sla"
    /\ evento.entrada > evento.saida
    /\ view.erro = "A data de saida deve ser posterior a data de entrada."
    /\ "resultado_sla" \in DOMAIN session_state
    /\ Len(analises) = 1
\* C18: in every reachable state, for every row of 'analises' whose pdf_path
\* names a file that exists in the bucket, the protocol printed in that file
\* is the id of the row.
C18_PdfProtocolIsRecordId ==
    \A i \in 1..Len(analises) :
        analises[i].pdf_path \in DOMAIN storage =>
            storage[analises[i].pdf_path] = analises[i].id
(***************************************************************************)
(* Properties of registrar_analise (SpecRegistrar).                        *)
(***************************************************************************)
\* C23: a call of registrar_analise returns a non-empty id exactly when it
\* inserted a row, and that row carries the id returned; when the insert
\* fails it returns "" and the table is unchanged; when the upload fails and
\* the insert succeeds the row is inserted and its pdf_path names no file of
\* the bucket.
C23_RegistrarReturnsInsertedId ==
    [][evento'.nome = "registrar" =>
           /\ (view'.protocolo # <<>>) <=> (analises' # analises)
           /\ view'.protocolo # <<>> =>
                  /\ Len(analises') = Len(analises) + 1
                  /\ SubSeq(analises', 1, Len(analises)) = analises
                  /\ analises'[Len(analises')].id = view'.protocolo
                  /\ analises'[Len(analises')].username = args'.username
                  /\ analises'[Len(analises')].tipo = args'.tipo
           /\ ~args'.io.insert_ok => (view'.protocolo = <<>> /\ analises' = analises)
           /\ args'.io.insert_ok => view'.protocolo # <<>>
           /\ (~args'.io.upload_ok /\ args'.io.insert_ok) =>
                  /\ storage' = storage
                  /\ analises'[Len(analises')].pdf_path \notin DOMAIN storage'
           /\ args'.io.upload_ok =>
                  uuid4(uuids + 1) \in {storage'[q] : q \in DOMAIN storage'}]_vars

\* the upload failed and the row was inserted all the same
C23_Witness ==
    /\ evento.nome = "registrar"
    /\ ~args.io.upload_ok
    /\ args.io.insert_ok
    /\ Len(analises) = 1
    /\ view.protocolo = analises[1].id
    /\ storage = <<>>
(***************************************************************************)
(* Properties of the deletion requests (SpecRequests).                     *)
(***************************************************************************)
\* whether the table holds an analysis with that id
Existe(an, analise_id) == \E i \in 1..Len(an) : an[i].id = analise_id

\* C24: a request with status "aprovado" names an analysis that is not in
\* the table; an approval step after which the analysis is still in the
\* table leaves every request as it was (pending); the status of a request
\* only changes from "pendente", to "aprovado" in an approval step or to
\* "reprovado" in a rejection step whose notes are not blank; a new request
\* is pending.
C24_ApprovalDeletesThenMarks ==
    /\ [](\A q \in 1..Len(delete_requests) :
              delete_requests[q].status = "aprovado" =>
                  ~Existe(analises, delete_requests[q].analise_id))
    /\ [][/\ \A q \in 1..Len(delete_requests) :
                 (/\ evento'.nome = "aprovar_exclusao"
                  /\ Existe(analises, delete_requests[q].analise_id)
                  /\ Existe(analises', delete_requests[q].analise_id)) =>
                     (analises' = analises /\ delete_requests' = delete_requests)
          /\ \A q \in 1..Len(delete_requests), r \in 1..Len(delete_requests') :
                 (/\ delete_requests'[r].id = delete_requests[q].id
                  /\ delete_requests'[r].status # delete_requests[q].status) =>
                     /\ delete_requests[q].status = "pendente"
                     /\ \/ /\ delete_requests'[r].status = "aprovado"
                           /\ evento'.nome = "aprovar_exclusao"
                        \/ /\ delete_requests'[r].status = "reprovado"
                           /\ evento'.nome = "reprovar_exclusao"
                           /\ str_strip(delete_requests'[r].review_notes) # <<>>
          /\ \A r \in 1..Len(delete_requests') :
                 (\A q \in 1..Len(delete_requests) :
                      delete_requests[q].id # delete_requests'[r].id) =>
                     delete_requests'[r].status = "pendente"]_vars

\* one request was rejected with a reason, then another one was approved
\* and the analysis is gone
C24_Witness ==
    /\ evento.nome = "aprovar_exclusao"
    /\ analises = <<>>
    /\ \E q, r \in 1..Len(delete_requests) :
           /\ delete_requests[q].status = "reprovado"
           /\ delete_requests[q].review_notes = <<"m">>
           /\ delete_requests[r].status = "aprovado"
\* whether the requests table holds a request with that id
Solicitada(dr, request_id) == \E q \in 1..Len(dr) : dr[q].id = request_id

\* C25: a notification shown names a rejected request of the table, and a
\* step that dismisses a notification without an error removes the request
\* from the table and from the notifications of the render that follows.
C25_DismissedNotShownAgain ==
    /\ [](\A id \in view.notificacoes :
              \E q \in 1..Len(delete_requests) :
                  /\ delete_requests[q].id = id
                  /\ delete_requests[q].status = "reprovado")
    /\ [][(evento'.nome = "dispensar" /\ view'.erro = "") =>
              /\ ~Solicitada(delete_requests', evento'.entrada)
              /\ evento'.entrada \notin view'.notificacoes]_vars
C27_EvaluatorsAgree ==
    (retS # <<>> /\ retC # <<>>) =>
        /\ retS[1].dias = retC[1].dias_uteis
        /\ retS[1].prazo_sla = retC[1].sla_dias
        /\ retS[1].dias_excedente = retC[1].excedente
        /\ retS[1].desconto = retC[1].desconto
        /\ retS[1].raised = retC[1].raised

\* both were called on a maintenance over the threshold with holidays
C27_Witness ==
    /\ retS # <<>>
    /\ retC # <<>>
    /\ args.feriados > 0
    /\ retS[1].dias_excedente > 1
    /\ retC[1].desconto = retS[1].desconto
    /\ RatLess(Zero, retC[1].desconto)
Logado(ss) == ss_get(ss, "logado", FALSE)

\* C29: a screen other than the login screen is rendered only for a session
\* with logado set, and a run of the script on a session without logado
\* renders the login screen whatever screen the session names; a login step
\* sets logado only when the password matched and the account exists with
\* status "aprovado"; a step that removes an analysis from the table or
\* changes the status of a deletion request happens in a session whose role
\* is admin or superadmin.
C29_AuthenticatedAreaGated ==
    /\ [](/\ view.screen # "login" => Logado(session_state)
          /\ \A tela \in ReqTelas :
                 \E r \in {script_run([k \in {"tela"} |-> tela], analises, storage,
                                       uuids, delete_requests, SemFalhas)} :
                     /\ r.view.screen = "login"
                     /\ r.ss["tela"] = "login"
                     /\ r.analises = analises)
    /\ [][/\ (~Logado(session_state) /\ Logado(session_state')) =>
                 /\ evento' = Evento("login", 1, 0)
                 /\ session_state'["username"] \in DOMAIN Usuarios
                 /\ Usuarios[session_state'["username"]].status = "aprovado"
                 /\ session_state'["role"] = Usuarios[session_state'["username"]].role
          /\ (\/ \E i \in 1..Len(analises) : ~Existe(analises', analises[i].id)
              \/ \E q \in 1..Len(delete_requests), r \in 1..Len(delete_requests') :
                     /\ delete_requests'[r].id = delete_requests[q].id
                     /\ delete_requests'[r].status # delete_requests[q].status) =>
                 /\ Logado(session_state)
                 /\ ss_get(session_state, "role", "") \in {"admin", "superadmin"}]_vars

\* a plain user is logged in on the personal history while a request is
\* approved and the analysis is gone
C29_Witness ==
    /\ Logado(session_state)
    /\ session_state["role"] = "user"
    /\ view.screen = "historico_pessoal"
    /\ analises = <<>>
    /\ \E q \in 1..Len(delete_requests) : delete_requests[q].status = "aprovado"
(***************************************************************************)
(* Properties of the password reset (SpecReset).                           *)
(***************************************************************************)
\* whether the token is among those of the resets that were stored
Usado(token) == \E k \in 1..Len(redefinicoes) : redefinicoes[k] = token

\* C30: no token is behind two stored password changes.  A password changes
\* only in a reset step whose token is not blank and equals the reset_token
\* of that user, with reset_expires_at a timestamp that has not passed; the
\* step empties that user's reset_token and reset_expires_at and leaves the
\* other users alone.  A token stored by "Enviar link" is a fresh one and
\* expires 30 minutes after the whole second of the instant it was issued.
\* A reset attempt with a token already used is turned down, with "Token
\* invalido." unless the two password fields are not both filled with the
\* same text, and changes nothing in the table.
C30_ResetTokenUsedOnce ==
    /\ [](\A k, m \in 1..Len(redefinicoes) :
              redefinicoes[k] = redefinicoes[m] => k = m)
    /\ [][/\ \A i \in 1..Len(users) :
                 users'[i].password # users[i].password =>
                     /\ evento'.nome = "redefinir_senha"
                     /\ str_strip(args'.token) # <<>>
                     /\ users[i].reset_token = args'.token
                     /\ Len(users[i].reset_expires_at) = 1
                     /\ agora <= users[i].reset_expires_at[1]
                     /\ users'[i].reset_token = <<>>
                     /\ users'[i].reset_expires_at = <<>>
                     /\ redefinicoes' = Append(redefinicoes, args'.token)
                     /\ \A j \in 1..Len(users) : j # i => users'[j] = users[j]
          /\ \A i \in 1..Len(users) :
                 (/\ users'[i].reset_token # users[i].reset_token
                  /\ users'[i].reset_token # <<>>) =>
                     /\ evento'.nome = "enviar_link"
                     /\ tokens' = tokens + 1
                     /\ users'[i].reset_token = token_urlsafe(tokens')
                     /\ users'[i].reset_expires_at = <<(agora - (agora % 2)) + 3600>>
          /\ (/\ evento'.nome = "redefinir_senha"
              /\ args' # args \/ view' # view \/ users' # users
              /\ Usado(args'.token)) =>
                 /\ view'.erro \in {"Token invalido.", "Informe e confirme a nova senha.",
                                   "As senhas nao conferem."}
                 /\ users' = users
                 /\ redefinicoes' = redefinicoes]_vars

\* two tokens were each used for one reset, and the last attempt, made with
\* one of them again, was turned down
C30_Witness ==
    /\ Len(redefinicoes) = 2
    /\ evento.nome = "redefinir_senha"
    /\ Usado(args.token)
    /\ view.erro = "Token invalido."
====
